---------------------------- MODULE Spec2Model ----------------------------
(***************************************************************************)
(* OpenPlayer: the Ads component (ad sequencing, error fallback across ad  *)
(* tags, content pause/resume) and the Captions component's cue lookup and *)
(* WebVTT line parser.                                                     *)
(*                                                                         *)
(* The Ads object is a set of callbacks driven by the ad SDK (loader and    *)
(* manager events), the media element (loadedmetadata, ended, timers) and   *)
(* the player (play, pause, load).  Every callback is one action; the       *)
(* callbacks' bodies are operators that map a state record to a state       *)
(* record, so that a callback that calls other methods (destroy, load,      *)
(* _requestAds, a synchronous dispatchEvent) is one step.                   *)
(***************************************************************************)
EXTENDS Integers, Sequences, FiniteSets, TLC

\* ------------------------------------------------------------------ bounds
\* longest list of ad tags
MaxTags == 2
\* ad requests the SDK has not answered yet
MaxPending == 1
\* loadedmetadata listeners attached to the media element in one run
MaxListeners == 2
\* largest value currentAdsIndex is followed to
MaxIndex == 3
\* pending timers of one kind
MaxTimers == 1
\* duration of the content, in ticks
Duration == 2
\* a long list of tags, and the limits of the runs with it
LongTags == 5
LongPending == 2
LongListeners == 3
LongIndex == 6
LongTimers == 2
\* Captions: cues of a track, media time in seconds, lines of a WebVTT text
MaxCues == 3
MaxTime == 4
MaxLines == 6
\* Captions: track elements of the media
MaxTracks == 2
\* Captions: elements in the markup of a cue
MaxElements == 3
\* Settings: addItem() calls, and callbacks of one kind that are due
MaxItems == 2
MaxFrames == 2
\* Fullscreen: events and resize frames due; the screen and the media
\* element's own size
MaxChanges == 1
MaxResizes == 1
ScreenWidth == 4
ScreenHeight == 3
OffsetWidth == 2
OffsetHeight == 1
\* Media: files of a player
MaxFiles == 3
\* timing lines of a text, and the seconds and tenths their times are of
MaxTimings == 2
MaxSeconds == 1
Tenths == {0, 1, 3}
\* the startTime given to a cue that starts at 0: 0.200 s, in tenths
FirstStart == 2

\* ------------------------------------------------------------------- state
VARIABLES
    cfg,                \* constructor arguments and options of the Ads object
    adsDone, adsActive, adsStarted,
    intervalTimer,      \* TRUE when #intervalTimer is not 0
    adsManager,         \* the current manager: its phase (ph) and whether
                        \* its ad is linear; ph = "none" when #adsManager is null
    adsLoader,          \* TRUE once load() has created an AdsLoader
    playTriggered, currentAdsIndex, lastTimePaused,
    activeClass,        \* the element's parent carries op-ads--active
    metaListeners,      \* 'loadedmetadata' listeners of the element, in order
    endedListener,      \* a _contentEndedListener is attached to 'ended'
    mPaused, mEnded, mTime, seekable, metaPending,   \* the content media
    pending,            \* ad requests the SDK has not answered yet
    resumeTimers,       \* pending 50 ms waits of _resumeMedia
    retryTimers,        \* pending setTimeout(_loadedMetadataHandler, 100)
    promise,            \* TRUE once #promise (the SDK script) has resolved
    lastRequest,        \* tag index of #adsRequest, the latest ad request; -1
                        \* if none
    nErrors,            \* history: AD_ERROR events handled before the first
                        \* ADS_MANAGER_LOADED
    anyLoaded,          \* history: some ADS_MANAGER_LOADED was handled
    resumeDue,          \* history: CONTENT_RESUME_REQUESTED was handled with
                        \* no tag left, and since then media.play() was not
                        \* called and 'ended' was not dispatched
    nextDue,            \* history: _loadedMetadataHandler has requested the
                        \* next tag of the list and no manager has been
                        \* initialised and started since
    cues, time, found,  \* Captions._search: input list, currentTime, result
    lines, entries,     \* Captions._getCuesFromText: input lines, result
    trackList,          \* Captions: the track elements of the media, each
                        \* with its language, its default attribute and
                        \* whether its cues are there natively
    capCreated,         \* Captions.create() has run
    current,            \* index in trackList of Captions.current; 0: undefined
    defaultLang,        \* Captions.default
    buttonOn,           \* the button carries op-controls__captions--on
    activeCaptions,     \* the button's data-active-captions
    captionsDiv,        \* this.captions and events.media.timeupdate exist
    timeupdateOn,       \* the timeupdate handler is attached to the media
    requests,           \* tracks whose text has been requested
    markup,             \* Captions._sanitize: the elements of a cue's text
    rendered,           \* the elements put into the captions container
    stCreated, stDestroyed,   \* Settings.create() / destroy() has run
    items,              \* Settings: number of addItem() calls so far
    menuHidden,         \* the menu's aria-hidden is 'true'
    menuMarkup,         \* the menu's innerHTML: "menu" (the main menu with
                        \* its items), "submenu" or "undefined"
    originalOutput,     \* Settings.originalOutput, "undefined" until set
    frames,             \* requestAnimationFrame callbacks of hideEvent due
    slides,             \* setTimeout callbacks of the submenu handler due,
                        \* by the markup they put into the menu
    clickListeners,     \* 'click' listeners on the settings button
    elementListeners,   \* listeners on the media element: <<type, handler>>
    docListeners,       \* 'click' listeners on document
    windowListeners,    \* listeners on window
    submenuHandler,     \* events.global['settings.submenu']: the item whose
                        \* handler it holds, 0 when undefined
    api,                \* the browser's fullscreen support: "native" (the
                        \* Fullscreen API), "iphone" (webkitEnterFullscreen
                        \* of the video only) or "none"
    bodyClass,          \* document.body has class op-fullscreen__on
    fsCreated, fsDestroyed,  \* Fullscreen.create() / destroy() has run
    isFullscreen,       \* Fullscreen.isFullscreen
    dataFullscreen,     \* the container's data-fullscreen is 'true'
    buttonOut,          \* the button has class op-controls__fullscreen--out
    ariaPressed,        \* the fullscreen button's aria-pressed is 'true'
    fullscreenWidth, fullscreenHeight,  \* 0 while undefined
    inlineWidth, inlineHeight,  \* wrapper and video have style width/height
    fsListeners,        \* the listeners Fullscreen has attached, by event
    docFullscreen,      \* the browser shows the container in fullscreen
    changeDue,          \* fullscreenchange events to be delivered
    videoFullscreen,    \* iPhone: the video is in its native fullscreen
    videoDue,           \* iPhone: webkitbeginfullscreen is to be delivered
    isAd,               \* player.isAd()
    hasManager,         \* the Ads object has an ads manager
    resizeCall,         \* arguments of the resizeAds call of the last step,
                        \* <<>> when it made none
    resizeFrames,       \* sizes resizeAds will hand to the ads manager
    adSize,             \* the size the ads manager was resized to last
    files,              \* Media.#files
    nativeHls,          \* HLS is played by the element itself: it can, the
                        \* forceNative option is on and no layer has levels
    media,              \* Media.#media: the wrapper and the index of the
                        \* file it was created for, NoMedia while undefined
    currentSrc,         \* Media.#currentSrc, as an index of files (0: none)
    invoked,            \* the files the last load() made a wrapper for
    loadThrew,          \* the last load() threw
    captionsOn,         \* the captions container has class op-captions--on
    timecodes           \* the timing lines of a track's text, each with the
                        \* start and end it names as <<seconds, tenths>>

adsVars == <<cfg, adsDone, adsActive, adsStarted, intervalTimer,
             adsManager, adsLoader, playTriggered, currentAdsIndex,
             lastTimePaused, activeClass, metaListeners,
             endedListener, mPaused, mEnded, mTime, seekable, metaPending,
             pending, resumeTimers, retryTimers, promise,
             lastRequest, nErrors, anyLoaded, resumeDue, nextDue>>
searchVars == <<cues, time, found>>
parseVars == <<lines, entries>>
trackVars == <<trackList, capCreated, current, defaultLang, buttonOn,
               activeCaptions, captionsDiv, timeupdateOn, requests,
               captionsOn>>
\* the components other than Ads and the two algorithms of Captions
sanVars == <<markup, rendered>>
settingsVars == <<stCreated, stDestroyed, items, menuHidden, menuMarkup,
                  originalOutput, frames, slides, clickListeners,
                  elementListeners, docListeners, windowListeners,
                  submenuHandler>>
fsVars == <<api, bodyClass, fsCreated, fsDestroyed, isFullscreen,
            dataFullscreen, buttonOut, ariaPressed, fullscreenWidth,
            fullscreenHeight,
            inlineWidth, inlineHeight, fsListeners, docFullscreen, changeDue,
            videoFullscreen, videoDue, isAd, hasManager, resizeCall,
            resizeFrames, adSize>>
mediaVars == <<files, nativeHls, media, currentSrc, invoked, loadThrew>>
restVars == <<trackVars, sanVars, settingsVars, fsVars, mediaVars, timecodes>>
vars == <<adsVars, searchVars, parseVars, restVars>>


\* ------------------------------------------------- the Ads object as a record
\* The state the callbacks work on.  microEnded: a rejected waitPromise of
\* _resumeMedia whose catch handler (dispatch 'ended') runs when the callback
\* returns.  did and stepRequests record what a callback does on its way:
\* the methods it calls, the events it dispatches and the tag indices it
\* requests, in order.
State ==
    [adsDone |-> adsDone, adsActive |-> adsActive,
     adsStarted |-> adsStarted, intervalTimer |-> intervalTimer,
     adsManager |-> adsManager, adsLoader |-> adsLoader,
     playTriggered |-> playTriggered, currentAdsIndex |-> currentAdsIndex,
     lastTimePaused |-> lastTimePaused,
     activeClass |-> activeClass, metaListeners |-> metaListeners,
     endedListener |-> endedListener, mPaused |-> mPaused, mEnded |-> mEnded,
     mTime |-> mTime, seekable |-> seekable, metaPending |-> metaPending,
     pending |-> pending,
     resumeTimers |-> resumeTimers, retryTimers |-> retryTimers,
     lastRequest |-> lastRequest, stepRequests |-> <<>>, nErrors |-> nErrors,
     anyLoaded |-> anyLoaded, microEnded |-> FALSE, did |-> {}]

Note(s, what) == [s EXCEPT !.did = @ \cup {what}]

\* IS_IOS || IS_ANDROID
IsMobile == cfg.mobile
\* #adsOptions.autoPlayAdBreaks and #adsOptions.enablePreloading, which the
\* player leaves at their defaults
autoPlayAdBreaks == TRUE
enablePreloading == FALSE
\* Array.isArray(#ads) and #ads.length
IsArray == cfg.isArray
AdsLength == cfg.n

\* `this.f.bind(this)` evaluates to a new function object each time, so the
\* function handed to removeEventListener is never the one that was added:
\* the listener list is left as it is.
removeEventListener(list, kind) == list

addEventListener(list, kind) == Append(list, kind)

\* ------------------------------------------------------- the content media
\* Media.pause(): the wrapped element is paused (directly, or from the
\* already resolved #promisePlay) before any other callback runs.
mediaPause_leavesPlaying(s) == Note(s, "mediaPause")

mediaPause(s) == [Note(s, "mediaPause") EXCEPT !.mPaused = TRUE]

\* Media.play(): the element plays (from the start when it had ended)
mediaPlay(s) ==
    [Note(s, "mediaPlay") EXCEPT
        !.mPaused = FALSE, !.mEnded = FALSE,
        !.mTime = IF s.mEnded THEN 0 ELSE @]

\* element.load() / Media.load(): the element goes back to the start of the
\* resource and delivers loadedmetadata later.
mediaLoad(s) ==
    [s EXCEPT !.mPaused = TRUE, !.mEnded = FALSE, !.mTime = 0,
              !.seekable = FALSE, !.metaPending = TRUE]

\* media.currentTime = value
setCurrentTime(s, value) ==
    [s EXCEPT !.mTime = value, !.mEnded = (s.mEnded /\ value >= Duration)]

\* ------------------------------------------------------- the ads managers
\* Phases of a manager: new (handed out), init (init() called), start (init()
\* and start() called), initLoaded / loaded (its ad has loaded, before / after
\* start()), pauseReq, playing, complete, resumeReq, done, destroyed;
\* badstart: start() was called before init(), which starts nothing.
NoManager == [ph |-> "none", linear |-> FALSE]

HasManager(s) == s.adsManager.ph # "none"

\* #adsManager.destroy()
managerDestroy(s) ==
    IF ~HasManager(s) THEN s
    ELSE [Note(s, "managerDestroy") EXCEPT !.adsManager.ph = "destroyed"]

\* manager.init(): the current manager
managerInit(s) ==
    [Note(s, "managerInit") EXCEPT
        !.adsManager.ph = IF @ = "new" THEN "init" ELSE @]

\* manager.start(): the current manager
managerStart(s) ==
    [Note(s, "managerStart") EXCEPT
        !.adsManager.ph = CASE @ = "init" -> "start"
                            [] @ = "initLoaded" -> "loaded"
                            [] @ = "new" -> "badstart"
                            [] OTHER -> @]

\* ----------------------------------------------------------- Ads, private
_requestAds(s) ==
    [Note(s, "requestAds") EXCEPT
        !.lastRequest = s.currentAdsIndex,
        !.stepRequests = Append(@, s.currentAdsIndex),
        !.pending = @ + 1]

_contentEndedListener(s) ==
    [s EXCEPT !.adsActive = FALSE, !.adsStarted = FALSE]

\* element.dispatchEvent('ended')
dispatchEnded(s) ==
    IF s.endedListener THEN _contentEndedListener(Note(s, "ended"))
    ELSE Note(s, "ended")

\* _resumeMedia() that waits the 50 ms whether or not the content has ended
_resumeMedia_ignoresEnded(s) ==
    LET s1 == [Note(s, "resumeMedia") EXCEPT
                  !.intervalTimer = FALSE, !.adsStarted = FALSE,
                  !.activeClass = FALSE]
    IN  [s1 EXCEPT !.resumeTimers = @ + 1]

_resumeMedia(s) ==
    LET s1 == [Note(s, "resumeMedia") EXCEPT
                  !.intervalTimer = FALSE, !.adsStarted = FALSE,
                  !.activeClass = FALSE]
    IN  IF s1.mEnded THEN [s1 EXCEPT !.microEnded = TRUE]
        ELSE [s1 EXCEPT !.resumeTimers = @ + 1]

\* _prepareMedia() that leaves currentTime alone
_prepareMedia_keepsTime(s) ==
    LET s1 == Note(s, "prepareMedia")
        s2 == [s1 EXCEPT !.metaListeners = removeEventListener(@, "meta")]
    IN  _resumeMedia(s2)

_prepareMedia(s) ==
    LET s1 == setCurrentTime(Note(s, "prepareMedia"), s.lastTimePaused)
        s2 == [s1 EXCEPT !.metaListeners = removeEventListener(@, "meta")]
    IN  _resumeMedia(s2)

\* #adsLoader.contentComplete()
contentComplete(s) == Note(s, "contentComplete")

_resetAdsAfterManualBreak(s) ==
    [contentComplete(managerDestroy(s)) EXCEPT !.adsDone = FALSE, !.playTriggered = TRUE]

_loadedMetadataHandler(s) ==
    IF IsArray THEN
        LET s1 == [s EXCEPT !.currentAdsIndex = @ + 1]
        IN  IF s1.currentAdsIndex <= AdsLength - 1 THEN
                _requestAds([contentComplete(managerDestroy(s1)) EXCEPT
                    !.playTriggered = TRUE, !.adsStarted = TRUE,
                    !.adsDone = FALSE])
            ELSE
                _prepareMedia(IF ~autoPlayAdBreaks
                              THEN _resetAdsAfterManualBreak(s1) ELSE s1)
    ELSE IF s.seekable THEN
        IF Duration > s.lastTimePaused THEN
            _prepareMedia(IF ~autoPlayAdBreaks
                          THEN _resetAdsAfterManualBreak(s) ELSE s)
        ELSE s
    ELSE [s EXCEPT !.retryTimers = @ + 1]

\* #preloadContent is only used to name the listener to remove
_contentLoadedAction(s) ==
    _requestAds([s EXCEPT !.metaListeners = removeEventListener(@, "content")])

\* element.dispatchEvent('loadedmetadata'): the listeners attached when the
\* dispatch starts run in the order they were added.
RECURSIVE runListeners(_, _)
runListeners(s, ls) ==
    IF ls = <<>> THEN s
    ELSE runListeners(IF Head(ls) = "meta" THEN _loadedMetadataHandler(s)
                      ELSE _contentLoadedAction(s), Tail(ls))

dispatchLoadedMetadata(s) == runListeners(s, s.metaListeners)

_initNotDoneAds(s) ==
    LET s1 == [s EXCEPT !.adsDone = TRUE]
    IN  IF ~s.adsLoader THEN Note(s1, "TypeError")
        ELSE IF IsMobile THEN
            mediaLoad([s1 EXCEPT
                          !.metaListeners = addEventListener(@, "content")])
        ELSE _contentLoadedAction(s1)


\* ------------------------------------------------------------ Ads, public
destroy(s) ==
    LET s1 == [Note(s, "destroy") EXCEPT
                  !.metaListeners = removeEventListener(
                      removeEventListener(@, "content"), "meta")]
        destroyManager == ~IsArray \/ s1.currentAdsIndex > AdsLength
    IN  IF HasManager(s1) /\ destroyManager THEN managerDestroy(s1) ELSE s1

\* load() whose request does not depend on force
load_ignoresForce(s, force) ==
    IF ~autoPlayAdBreaks /\ ~force THEN s
    ELSE
        LET s1 == [Note(s, "load") EXCEPT !.adsStarted = TRUE, !.adsLoader = TRUE]
        IN  IF cfg.autoStart \/ cfg.autoStartMuted \/ enablePreloading
            THEN _requestAds([s1 EXCEPT !.adsDone = TRUE])
            ELSE s1

load(s, force) ==
    IF ~autoPlayAdBreaks /\ ~force THEN s
    ELSE
        LET s1 == [Note(s, "load") EXCEPT !.adsStarted = TRUE, !.adsLoader = TRUE]
        IN  IF cfg.autoStart \/ cfg.autoStartMuted \/ force \/ enablePreloading
            THEN _requestAds([s1 EXCEPT !.adsDone = TRUE])
            ELSE s1

play(s) ==
    IF ~s.adsDone THEN _initNotDoneAds(s)
    ELSE IF HasManager(s) THEN
        LET s1 == IF ~s.intervalTimer /\ ~s.adsActive
                  THEN managerStart(s)
                  ELSE Note(s, "managerResume")
        IN  [s1 EXCEPT !.adsActive = TRUE]
    ELSE s

pause(s) ==
    IF HasManager(s) THEN [Note(s, "managerPause") EXCEPT !.adsActive = FALSE]
    ELSE s

\* the field is initialised to false and never written again
mediaStarted == FALSE

_start(s) ==
    IF cfg.autoStart \/ s.playTriggered THEN
        LET s1 == [s EXCEPT !.playTriggered = FALSE]
        IN  IF ~s1.adsDone THEN _initNotDoneAds(s1)
            ELSE managerStart(managerInit(s1))
    ELSE IF enablePreloading THEN managerInit(s)
    ELSE s

\* The manager of the event replaces #adsManager.  The SDK plays one manager
\* at a time: a manager that has been replaced emits no further events.
_loaded(s, linear) ==
    _start([s EXCEPT !.adsManager = [ph |-> "new", linear |-> linear],
                     !.anyLoaded = TRUE])

\* _error() that falls back while currentAdsIndex < length
_error_retriesPastLast(s, fatal) ==
    LET s0 == [Note(s, "playererror") EXCEPT
                  !.nErrors = IF s.anyLoaded THEN @ ELSE @ + 1]
    IN  IF IsArray /\ AdsLength > 1 /\ s0.currentAdsIndex < AdsLength THEN
            load(destroy([s0 EXCEPT !.currentAdsIndex = @ + 1,
                                    !.playTriggered = TRUE,
                                    !.adsStarted = TRUE,
                                    !.adsDone = FALSE]), TRUE)
        ELSE
            LET s1 == IF fatal THEN managerDestroy(Note(s0, "fatal")) ELSE s0
            IN  IF cfg.autoStart \/ cfg.autoStartMuted \/ s1.adsStarted
                THEN _resumeMedia([s1 EXCEPT !.adsActive = FALSE])
                ELSE s1

_error(s, fatal) ==
    LET s0 == [Note(s, "playererror") EXCEPT
                  !.nErrors = IF s.anyLoaded THEN @ ELSE @ + 1]
    IN  IF IsArray /\ AdsLength > 1 /\ s0.currentAdsIndex < AdsLength - 1 THEN
            load(destroy([s0 EXCEPT !.currentAdsIndex = @ + 1,
                                    !.playTriggered = TRUE,
                                    !.adsStarted = TRUE,
                                    !.adsDone = FALSE]), TRUE)
        ELSE
            LET s1 == IF fatal THEN managerDestroy(Note(s0, "fatal")) ELSE s0
            IN  IF cfg.autoStart \/ cfg.autoStartMuted \/ s1.adsStarted
                THEN _resumeMedia([s1 EXCEPT !.adsActive = FALSE])
                ELSE s1

_onContentPauseRequested(s) ==
    LET s1 == [s EXCEPT !.lastTimePaused = s.mTime]
    IN  IF s1.adsStarted THEN mediaPause(s1)
        ELSE [s1 EXCEPT !.adsStarted = TRUE]

\* _onContentResumeRequested() whose loop branch never goes back to tag 0
_onContentResumeRequested_noWrap(s) ==
    IF cfg.loop THEN
        LET s1 == IF IsArray
                  THEN [s EXCEPT !.currentAdsIndex = @ + 1]
                  ELSE s
        IN  load([destroy(s1) EXCEPT !.playTriggered = TRUE,
                                     !.adsStarted = TRUE,
                                     !.adsDone = FALSE], TRUE)
    ELSE
        LET s1 == [s EXCEPT !.endedListener = TRUE,
                            !.metaListeners = addEventListener(@, "meta")]
        IN  IF IsMobile
            THEN [_prepareMedia(mediaLoad(s1)) EXCEPT !.activeClass = TRUE]
            ELSE dispatchLoadedMetadata(s1)

_onContentResumeRequested(s) ==
    IF cfg.loop THEN
        LET s1 == IF IsArray
                  THEN [s EXCEPT !.currentAdsIndex =
                           IF @ = AdsLength - 1 THEN 0 ELSE @ + 1]
                  ELSE s
        IN  load([destroy(s1) EXCEPT !.playTriggered = TRUE,
                                     !.adsStarted = TRUE,
                                     !.adsDone = FALSE], TRUE)
    ELSE
        LET s1 == [s EXCEPT !.endedListener = TRUE,
                            !.metaListeners = addEventListener(@, "meta")]
        IN  IF IsMobile
            THEN [_prepareMedia(mediaLoad(s1)) EXCEPT !.activeClass = TRUE]
            ELSE dispatchLoadedMetadata(s1)

\* the cases of _assign that change the Ads object
_assign(s, type, linear) ==
    CASE type = "LOADED" ->
            IF ~linear THEN _onContentResumeRequested(s)
            ELSE IF ~mediaStarted /\ ~IsMobile THEN dispatchLoadedMetadata(s)
            ELSE s
      [] type = "STARTED" ->
            IF linear THEN
                LET s1 == [s EXCEPT !.activeClass = TRUE]
                    s2 == IF ~s1.mPaused THEN mediaPause(s1) ELSE s1
                IN  [s2 EXCEPT !.adsActive = TRUE, !.intervalTimer = TRUE]
            ELSE s
      [] type \in {"COMPLETE", "SKIPPED"} ->
            IF linear THEN [s EXCEPT !.activeClass = FALSE, !.adsActive = FALSE]
            ELSE s
      [] type = "ALL_ADS_COMPLETED" ->
            IF linear THEN
                LET s1 == destroy([s EXCEPT !.adsActive = FALSE,
                                            !.intervalTimer = FALSE,
                                            !.adsStarted = FALSE,
                                            !.activeClass = FALSE])
                IN  IF s1.seekable /\ s1.mTime >= Duration
                    THEN dispatchEnded(s1) ELSE s1
            ELSE s
      [] OTHER -> s


\* ---------------------------------------------------------------- Captions
\* _search(tracks, currentTime); tracks[mid] of the code is tracks[mid + 1]
\* here.  When neither bound moves the loop of the code does not end: -2.
RECURSIVE searchLoop(_, _, _, _)
searchLoop(tracks, currentTime, low, high) ==
    IF low > high THEN -1
    ELSE
        LET mid == (low + high) \div 2
            start == tracks[mid + 1].startTime
            stop == tracks[mid + 1].endTime
        IN  IF currentTime >= start /\ currentTime < stop THEN mid
            ELSE IF start < currentTime
            THEN searchLoop(tracks, currentTime, mid + 1, high)
            ELSE IF start > currentTime
            THEN searchLoop(tracks, currentTime, low, mid - 1)
            ELSE -2

\* _search() that never looks at the first cue
_search_skipsFirst(tracks, currentTime) ==
    searchLoop(tracks, currentTime, 1, Len(tracks) - 1)

_search(tracks, currentTime) ==
    searchLoop(tracks, currentTime, 0, Len(tracks) - 1)

\* a line of a WebVTT text that regexp matches: 'start --> end'
TimingLines == {"00:01 --> 00:02", "00:03 --> 00:04"}
\* a line that urlRegexp matches, and what replace() makes of it
UrlLine == "http://a.io"
Anchor == "<a href='http://a.io' target='_blank'>http://a.io</a>"

\* lines[i] of the code: undefined past the end
At(ls, i) == IF i >= 0 /\ i < Len(ls) THEN ls[i + 1] ELSE "undefined"

\* while (lines[i] !== '' && i < lines.length): the cue, a text of several
\* lines, is kept as the sequence of its lines
RECURSIVE grabText(_, _, _)
grabText(ls, cue, i) ==
    IF At(ls, i) # "" /\ i < Len(ls)
    THEN grabText(ls, Append(cue, At(ls, i)), i + 1)
    ELSE [cue |-> cue, i |-> i]

\* cue.trim(): the empty lines at both ends go (no line of a text has
\* spaces around it); the empty string is the text of no lines
RECURSIVE trim(_)
trim(cue) ==
    IF cue = <<>> THEN cue
    ELSE IF Head(cue) = "" THEN trim(Tail(cue))
    ELSE IF cue[Len(cue)] = "" THEN trim(SubSeq(cue, 1, Len(cue) - 1))
    ELSE cue

\* cue.replace(urlRegexp, "<a href='$1' target='_blank'>$1</a>")
linkify(cue) == [k \in 1..Len(cue) |-> IF cue[k] = UrlLine THEN Anchor ELSE cue[k]]

\* the for loop of _getCuesFromText from line i on; threw: cue.trim() of an
\* undefined cue raises a TypeError and nothing is returned
RECURSIVE parseFrom(_, _, _, _)
parseFrom(ls, i, identifier, found_) ==
    IF i >= Len(ls) THEN [threw |-> FALSE, entries |-> found_]
    ELSE IF At(ls, i) \in TimingLines THEN
        LET id == IF i - 1 >= 0 /\ At(ls, i - 1) # ""
                  THEN At(ls, i - 1) ELSE identifier
            g == grabText(ls, <<At(ls, i + 1)>>, i + 2)
        IN  IF At(ls, i + 1) = "undefined"
            THEN [threw |-> TRUE, entries |-> <<>>]
            ELSE parseFrom(ls, g.i + 1, "",
                     Append(found_, [timecode |-> At(ls, i), identifier |-> id,
                                     text |-> linkify(trim(g.cue))]))
    ELSE parseFrom(ls, i + 1, "", found_)

\* ls: webvttText.split(/\r?\n/); `let identifier;` is undefined at first
_getCuesFromText(ls) == parseFrom(ls, 0, "undefined", <<>>)


\* ------------------------------------------------- Captions, the track list
\* The Captions object as a record.
Captions ==
    [trackList |-> trackList, capCreated |-> capCreated, current |-> current,
     defaultLang |-> defaultLang, buttonOn |-> buttonOn,
     activeCaptions |-> activeCaptions, captionsDiv |-> captionsDiv,
     timeupdateOn |-> timeupdateOn, requests |-> requests,
     captionsOn |-> captionsOn, rendered |-> rendered]

\* Array.from(this.trackList).filter(item => item.language === language).pop()
lastWithLanguage(c, language) ==
    LET same == {j \in 1..Len(c.trackList) : c.trackList[j].language = language}
    IN  IF same = {} THEN 0 ELSE CHOOSE j \in same : \A k \in same : k <= j

\* cues of a TextTrack is a list or null, never undefined
cuesUndefined == FALSE

_show(c) ==
    IF ~c.captionsDiv \/ c.current = 0 \/ cuesUndefined THEN c
    ELSE [c EXCEPT !.timeupdateOn = TRUE, !.rendered = <<>>]

_hide(c) ==
    LET c1 == [c EXCEPT !.captionsOn = FALSE]
    IN  IF c.current = 0
        THEN [c1 EXCEPT !.buttonOn = FALSE, !.activeCaptions = "off"]
        ELSE c1

_prepareTrack(c, index, language, showTrack) ==
    IF showTrack THEN
        _show([c EXCEPT !.defaultLang = language, !.buttonOn = TRUE,
                        !.activeCaptions = language,
                        !.current = lastWithLanguage(c, language)])
    ELSE c

\* the loop of create() over the track elements, from element i on
RECURSIVE createTracks(_, _)
createTracks(c, i) ==
    IF i > Len(c.trackList) THEN c
    ELSE
        LET element == c.trackList[i]
            c1 == IF element.default
                  THEN [c EXCEPT !.defaultLang = element.language,
                                 !.activeCaptions = element.language]
                  ELSE c
        IN  createTracks(
                IF element.native
                THEN _prepareTrack(c1, i, element.language, element.default)
                ELSE [c1 EXCEPT !.requests = @ \cup {i}],
                i + 1)

\* Captions.create(): the button, the tracks, then the captions container
\* and the handlers
createCaptions(c) ==
    IF Len(c.trackList) = 0 THEN [c EXCEPT !.capCreated = TRUE]
    ELSE [createTracks([c EXCEPT !.activeCaptions = "off"], 1) EXCEPT
             !.captionsDiv = TRUE, !.capCreated = TRUE]

\* the callback of request(): the text of track i has arrived
trackLoaded(c, i) ==
    _prepareTrack([c EXCEPT !.requests = @ \ {i}], i,
                  c.trackList[i].language, c.trackList[i].default)

\* events.button.click, the menu not detached
buttonClick(c) ==
    IF c.buttonOn
    THEN [_hide(c) EXCEPT !.buttonOn = FALSE, !.activeCaptions = "off"]
    ELSE
        LET c1 == _show(IF c.current = 0 THEN [c EXCEPT !.current = 1] ELSE c)
        IN  [c1 EXCEPT !.buttonOn = TRUE,
                       !.activeCaptions = c1.trackList[c1.current].language]

\* a player without tracks whose Captions object is left as constructed
TracksOff ==
    /\ trackList = <<>> /\ capCreated = FALSE /\ current = 0
    /\ defaultLang = "off" /\ buttonOn = FALSE /\ activeCaptions = "off"
    /\ captionsDiv = FALSE /\ timeupdateOn = FALSE /\ requests = {}
    /\ captionsOn = FALSE

\* ------------------------------------------------------ Captions._sanitize
\* The markup of a cue is the sequence of its elements in document order,
\* each with its tag, the names of its attributes in order and its depth
\* below the div that _sanitize parses it into: the elements after element k
\* that are deeper than k, up to the first that is not, are inside k.
subtreeEnd(els, k) ==
    LET after == {m \in (k + 1)..Len(els) : els[m].depth <= els[k].depth}
    IN  IF after = {} THEN Len(els)
        ELSE (CHOOSE m \in after : \A x \in after : m <= x) - 1

\* removeElement(el) for the element k of the document: it goes with what is
\* inside it
removeElementAt(els, k) ==
    SubSeq(els, 1, k - 1) \o SubSeq(els, subtreeEnd(els, k) + 1, Len(els))

\* while (i--) removeElement(scripts[i]): the last script of the live
\* collection goes, until none is left
RECURSIVE removeScripts(_)
removeScripts(els) ==
    LET scripts == {k \in 1..Len(els) : els[k].tag = "script"}
    IN  IF scripts = {} THEN els
        ELSE removeScripts(removeElementAt(els,
                 CHOOSE k \in scripts : \A x \in scripts : x <= k))

\* /^(on|javascript:)/.test(name)
isHandler(name) == name \in {"onclick", "javascript:x"}

\* the loop over the attributes (a copy) of the element that was at index
\* when the loop started; allElements is live, so allElements[index] is the
\* element at that index now, undefined when there is none
RECURSIVE attributesLoop(_, _, _, _)
attributesLoop(els, index, attributes, j) ==
    IF j > Len(attributes) THEN [threw |-> FALSE, els |-> els]
    ELSE IF isHandler(attributes[j]) THEN
        IF index + 1 > Len(els)
        THEN attributesLoop(els, index, attributes, j + 1)
        ELSE attributesLoop(removeElementAt(els, index + 1), index,
                            attributes, j + 1)
    ELSE IF attributes[j] = "style" THEN
        IF index + 1 > Len(els) THEN [threw |-> TRUE, els |-> els]
        ELSE attributesLoop(
                 [els EXCEPT ![index + 1].attributes =
                      SelectSeq(@, LAMBDA a : a # "style")],
                 index, attributes, j + 1)
    ELSE attributesLoop(els, index, attributes, j + 1)

\* for (let index = 0, n = allElements.length; index < n; index++): n is
\* taken once; allElements[index].attributes of an index past the live
\* collection raises a TypeError
RECURSIVE elementsLoop(_, _, _)
elementsLoop(els, index, n) ==
    IF index >= n THEN [threw |-> FALSE, els |-> els]
    ELSE IF index + 1 > Len(els) THEN [threw |-> TRUE, els |-> els]
    ELSE
        LET r == attributesLoop(els, index, els[index + 1].attributes, 1)
        IN  IF r.threw THEN r ELSE elementsLoop(r.els, index + 1, n)

_sanitize(html) ==
    LET div == removeScripts(html)
    IN  elementsLoop(div, 0, Len(div))

\* this.tracks[language] of track i is set: by create() for a track that
\* came with its cues, by the callback of the request for any other
tracksStored(c, i) == c.capCreated /\ i \notin c.requests

\* events.media.timeupdate; isMedia: player.isMedia(), currentCues and text:
\* the cues of the current track and the text of the one found.  A _sanitize
\* that throws ends the handler after the class was added.
timeupdate(c, isMedia, currentCues, currentTime, text) ==
    IF ~isMedia THEN _hide(c)
    ELSE IF c.current = 0 THEN _hide(c)
    ELSE IF ~tracksStored(c, c.current) THEN c
    ELSE
        LET index == _search(currentCues, currentTime)
            c1 == [c EXCEPT !.rendered = <<>>]
        IN  IF index > -1 /\ c.buttonOn
            THEN LET clean == _sanitize(text)
                 IN  IF clean.threw THEN [c1 EXCEPT !.captionsOn = TRUE]
                     ELSE [c1 EXCEPT !.captionsOn = TRUE,
                                     !.rendered = clean.els]
            ELSE _hide(c1)

\* events.global.click on the option of a language, or of 'off', in the
\* settings menu (the menu not detached)
languageClick(c, language) ==
    LET c1 == _show([c EXCEPT !.current = lastWithLanguage(c, language)])
    IN  [c1 EXCEPT !.activeCaptions = language]

\* no cue is being rendered
SanitizeOff == markup = <<>> /\ rendered = <<>>

\* ----------------------------------------------------------------- Settings
\* The Settings object, its menu and the listeners it has attached.
Settings ==
    [stCreated |-> stCreated, stDestroyed |-> stDestroyed, items |-> items,
     menuHidden |-> menuHidden, menuMarkup |-> menuMarkup,
     originalOutput |-> originalOutput, frames |-> frames, slides |-> slides,
     clickListeners |-> clickListeners, elementListeners |-> elementListeners,
     docListeners |-> docListeners, windowListeners |-> windowListeners,
     submenuHandler |-> submenuHandler]

\* the handler of the k-th addItem() call
SubmenuOf(k) == <<"settings.submenu", k>>

\* this.hideEvent: the menu is reset in the next animation frame
hideEvent(s) == [s EXCEPT !.frames = @ + 1]

\* the callback hideEvent hands to requestAnimationFrame
hideFrame(s) ==
    [s EXCEPT !.frames = @ - 1, !.menuMarkup = s.originalOutput,
              !.menuHidden = TRUE]

\* this.clickEvent
clickEvent(s) == [s EXCEPT !.menuHidden = ~@]

\* Object.keys(this.events): the events create() and destroy() go through
\* when they attach and detach this.events.media[event]
EventsKeys == {"global", "media"}
\* the handlers create() stores in this.events.media
EventsMedia == {"controlshidden", "settingremoved", "play", "pause"}

\* this.events.media[event], "undefined" when there is no such handler;
\* addEventListener and removeEventListener ignore an undefined listener
mediaHandlers(keys) ==
    {<<event, "hideEvent">> : event \in (keys \cap EventsMedia) \ {"settingremoved"}}
        \cup {<<event, "removeEvent">> : event \in keys \cap {"settingremoved"}}

\* Settings.create(); this.clickEvent.bind(this) is a new function
createSettings(s) ==
    [s EXCEPT !.stCreated = TRUE, !.menuHidden = TRUE, !.menuMarkup = "menu",
              !.clickListeners = @ + 1,
              !.elementListeners = @ \cup mediaHandlers(EventsKeys),
              !.docListeners = @ \cup {<<"global.click", 0>>},
              !.windowListeners = @ \cup {"resize"}]

\* Settings.destroy(); the function handed to the button's
\* removeEventListener is a new one, which was never attached
destroySettings(s) ==
    LET s1 == [s EXCEPT !.stDestroyed = TRUE,
                  !.elementListeners = @ \ mediaHandlers(EventsKeys),
                  !.docListeners = @ \ {<<"global.click", 0>>},
                  !.windowListeners = @ \ {"resize"}]
    IN  IF s1.submenuHandler # 0
        THEN [s1 EXCEPT
                 !.docListeners = @ \ {SubmenuOf(s1.submenuHandler)},
                 !.elementListeners = @ \ {<<"controlshidden", "hideEvent">>}]
        ELSE s1

\* Settings.addItem(): querySelector('.op-settings__menu') finds the menu in
\* the main menu and in a submenu, and is null (TypeError) in any other
\* markup
addItem(s) ==
    IF s.menuMarkup = "undefined" THEN s
    ELSE [s EXCEPT !.items = @ + 1, !.originalOutput = s.menuMarkup,
                   !.submenuHandler = s.items + 1,
                   !.docListeners = @ \cup {SubmenuOf(s.items + 1)},
                   !.elementListeners = @ \cup {<<"controlshidden", "hideEvent">>}]

\* one events.global['settings.submenu'] handler, for a click on target:
\* outside the player, on the back button of a submenu, on the content of a
\* menu item, or on an option of a submenu
submenuClick(s, target) ==
    CASE target = "outside" -> hideEvent(s)
      [] target = "back" -> [s EXCEPT !.slides = @ \cup {"original"}]
      [] target = "content" -> [s EXCEPT !.slides = @ \cup {"submenu"}]
      [] target = "option" -> [s EXCEPT !.slides = @ \cup {"original"}]
      [] OTHER -> s

\* a click on document: every submenu handler attached runs
RECURSIVE documentClick(_, _, _)
documentClick(s, target, handlers) ==
    IF handlers = {} THEN s
    ELSE LET h == CHOOSE x \in handlers : TRUE
         IN  documentClick(IF h[1] = "settings.submenu"
                           THEN submenuClick(s, target) ELSE s,
                           target, handlers \ {h})

\* the media element fires an event: every listener attached for it runs
RECURSIVE elementEvent(_, _)
elementEvent(s, handlers) ==
    IF handlers = {} THEN s
    ELSE LET h == CHOOSE x \in handlers : TRUE
         IN  elementEvent(IF h[2] = "hideEvent" THEN hideEvent(s) ELSE s,
                          handlers \ {h})

\* a callback the submenu handler handed to setTimeout
slideTimeout(s, kind) ==
    [s EXCEPT !.slides = @ \ {kind},
              !.menuMarkup = IF kind = "original" THEN s.originalOutput
                             ELSE "submenu"]

\* a player without settings
SettingsOff ==
    /\ stCreated = FALSE /\ stDestroyed = FALSE /\ items = 0
    /\ menuHidden = TRUE /\ menuMarkup = "menu"
    /\ originalOutput = "undefined" /\ frames = 0 /\ slides = {}
    /\ clickListeners = 0 /\ elementListeners = {} /\ docListeners = {}
    /\ windowListeners = {} /\ submenuHandler = 0

\* --------------------------------------------------------------- Fullscreen
\* The Fullscreen control, the page it acts on and the browser's side of it.
Fullscreen ==
    [api |-> api, bodyClass |-> bodyClass, fsCreated |-> fsCreated,
     fsDestroyed |-> fsDestroyed, isFullscreen |-> isFullscreen,
     dataFullscreen |-> dataFullscreen, buttonOut |-> buttonOut,
     ariaPressed |-> ariaPressed,
     fullscreenWidth |-> fullscreenWidth,
     fullscreenHeight |-> fullscreenHeight, inlineWidth |-> inlineWidth,
     inlineHeight |-> inlineHeight, fsListeners |-> fsListeners,
     docFullscreen |-> docFullscreen, changeDue |-> changeDue,
     videoFullscreen |-> videoFullscreen, videoDue |-> videoDue,
     isAd |-> isAd, hasManager |-> hasManager, resizeCall |-> resizeCall,
     resizeFrames |-> resizeFrames, adSize |-> adSize]

\* this.fullscreenEvents
fullscreenEvents ==
    {"fullscreenchange", "mozfullscreenchange", "webkitfullscreenchange",
     "msfullscreenchange"}
\* the iPhone events create() listens to
iPhoneEvents == {"webkitbeginfullscreen", "webkitendfullscreen"}

\* Fullscreen._setFullscreenData
_setFullscreenData(f, state) ==
    [f EXCEPT !.dataFullscreen = state, !.buttonOut = state]

\* _resize that never takes an inline width away
_resize_keepsWidth(f, width, height) ==
    [f EXCEPT !.inlineWidth = IF width # 0 THEN TRUE ELSE @,
              !.inlineHeight = (height # 0)]

\* Fullscreen._resize: '100%' for a width or height that is not 0
_resize(f, width, height) ==
    [f EXCEPT !.inlineWidth = (width # 0), !.inlineHeight = (height # 0)]

\* Ads.resizeAds: the ads manager is resized in the next animation frame, to
\* the size given or, for 0, to the media element's own
resizeAds(f, width, height) ==
    LET g == [f EXCEPT !.resizeCall = <<width, height>>]
    IN  IF f.hasManager
        THEN [g EXCEPT !.resizeFrames =
                 Append(@, <<IF width # 0 THEN width ELSE OffsetWidth,
                             IF height # 0 THEN height ELSE OffsetHeight>>)]
        ELSE g

\* the callback resizeAds hands to requestAnimationFrame
resizeFrame(f) ==
    [f EXCEPT !.adSize = Head(f.resizeFrames), !.resizeFrames = Tail(@),
              !.resizeCall = <<>>]

\* Fullscreen._fullscreenChange
_fullscreenChange(f) ==
    LET width == IF f.isFullscreen THEN 0 ELSE f.fullscreenWidth
        height == IF f.isFullscreen THEN 0 ELSE f.fullscreenHeight
        f1 == _setFullscreenData(f, ~f.isFullscreen)
        f2 == IF f1.isAd THEN resizeAds(f1, width, height) ELSE f1
        f3 == [f2 EXCEPT !.isFullscreen = ~f.isFullscreen,
                         !.bodyClass = ~f.isFullscreen]
    IN  _resize(f3, width, height)

\* Fullscreen.toggleFullscreen; granted: the browser grants the request to
\* enter fullscreen.  exitFullscreen() and requestFullscreen() change nothing
\* and announce nothing when the document is already in the state asked for.
toggleFullscreen(f, granted) ==
    IF f.isFullscreen
    THEN LET f1 == CASE f.api = "native" ->
                        IF f.docFullscreen
                        THEN [f EXCEPT !.docFullscreen = FALSE,
                                       !.changeDue = @ + 1]
                        ELSE f
                     [] OTHER -> _fullscreenChange(f)
         IN  [f1 EXCEPT !.bodyClass = FALSE]
    ELSE LET f0 == [f EXCEPT !.fullscreenWidth = ScreenWidth,
                             !.fullscreenHeight = ScreenHeight]
             f1 == CASE f.api = "native" ->
                        IF granted /\ ~f.docFullscreen
                        THEN [f0 EXCEPT !.docFullscreen = TRUE,
                                        !.changeDue = @ + 1]
                        ELSE f0
                     [] f.api = "iphone" ->
                        IF granted /\ ~f.videoFullscreen
                        THEN [f0 EXCEPT !.videoFullscreen = TRUE,
                                        !.videoDue = TRUE]
                        ELSE f0
                     [] OTHER -> _fullscreenChange(f0)
         IN  [f1 EXCEPT !.bodyClass = TRUE]

\* Fullscreen._keydownEvent, for the F key without ctrl
_keydownEvent(f, granted) == toggleFullscreen(f, granted)

\* this.clickEvent of the fullscreen button
fullscreenClick(f, granted) ==
    toggleFullscreen([f EXCEPT !.ariaPressed = TRUE], granted)

\* the webkitbeginfullscreen listener of create()
beginFullscreen(f) ==
    [_setFullscreenData(f, TRUE) EXCEPT !.isFullscreen = TRUE,
                                        !.bodyClass = TRUE]

\* the webkitendfullscreen listener of create()
endFullscreen(f) ==
    [_setFullscreenData(f, FALSE) EXCEPT !.isFullscreen = FALSE,
                                         !.bodyClass = FALSE]

\* Fullscreen.create(); IS_IPHONE on the browser with webkitEnterFullscreen
createFullscreen(f) ==
    [_setFullscreenData(f, FALSE) EXCEPT
        !.fsCreated = TRUE, !.ariaPressed = FALSE,
        !.fsListeners = @ \cup {"keydown", "click"} \cup fullscreenEvents
                          \cup (IF f.api = "iphone" THEN iPhoneEvents ELSE {})]

\* Fullscreen.destroy(): every removeEventListener gets a function made for
\* the call (bind, or a new arrow function), which no listener is
destroyFullscreen(f) == [f EXCEPT !.fsDestroyed = TRUE]

\* a player without the fullscreen control
FullscreenOff ==
    /\ api = "none" /\ bodyClass = FALSE /\ fsCreated = FALSE
    /\ fsDestroyed = FALSE /\ isFullscreen = FALSE /\ dataFullscreen = FALSE
    /\ buttonOut = FALSE /\ ariaPressed = FALSE
    /\ fullscreenWidth = 0 /\ fullscreenHeight = 0
    /\ inlineWidth = FALSE /\ inlineHeight = FALSE /\ fsListeners = {}
    /\ docFullscreen = FALSE /\ changeDue = 0 /\ videoFullscreen = FALSE
    /\ videoDue = FALSE /\ isAd = FALSE /\ hasManager = FALSE
    /\ resizeCall = <<>> /\ resizeFrames = <<>> /\ adSize = <<>>

\* -------------------------------------------------------------------- Media
\* The Media object: its files and its active wrapper.
Media ==
    [files |-> files, nativeHls |-> nativeHls, media |-> media,
     currentSrc |-> currentSrc, invoked |-> invoked, loadThrew |-> loadThrew]

NoMedia == [class |-> "none", file |-> 0]

\* Media._invoke without custom media: the wrapper class for a file.  The
\* constructors of the HLS, DASH and FLV wrappers are not among the sources;
\* file.fails tells whether the one for this file throws.
_invoke(m, i) ==
    LET file == m.files[i]
        class == CASE file.type = "hls" ->
                        IF m.nativeHls THEN "HTML5Media" ELSE "HlsMedia"
                   [] file.type = "dash" -> "DashMedia"
                   [] file.type = "flv" -> "FlvMedia"
                   [] OTHER -> "HTML5Media"
    IN  [class |-> class, file |-> i,
         threw |-> class # "HTML5Media" /\ file.fails]

\* #media.canPlayType(file.type): the answer of the element for HTML5Media,
\* of the library for the other wrappers
canPlayType(m, wrapper) ==
    IF wrapper.class = "HTML5Media" THEN m.files[wrapper.file].native
    ELSE m.files[wrapper.file].plays

\* the callback load() hands to #files.some, for the file at i
tryFile(m, i) ==
    LET made == _invoke(m, i)
        wrapper == IF made.threw THEN [class |-> "HTML5Media", file |-> i]
                   ELSE [class |-> made.class, file |-> i]
    IN  [m EXCEPT !.currentSrc = i, !.media = wrapper,
                  !.invoked = Append(@, i)]

\* #files.some(...): stops at the first file for which the callback is true
RECURSIVE some(_, _)
some(m, i) ==
    IF i > Len(m.files) THEN m
    ELSE LET m1 == tryFile(m, i)
         IN  IF canPlayType(m1, m1.media) THEN m1 ELSE some(m1, i + 1)

\* Media.load(); a wrapper that was destroyed is still the value of #media,
\* which is never null
load_media(m) ==
    LET m0 == [m EXCEPT !.invoked = <<>>, !.loadThrew = FALSE]
    IN  IF Len(m0.files) = 0 THEN [m0 EXCEPT !.loadThrew = TRUE]
        ELSE some(m0, 1)

\* a player without the Media object
MediaOff ==
    /\ files = <<>> /\ nativeHls = FALSE /\ media = NoMedia
    /\ currentSrc = 0 /\ invoked = <<>> /\ loadThrew = FALSE

\* timeToSeconds of utils/time, for the text 'mm:ss.f' of a timecode: the
\* time it names, here in tenths of a second
timeToSeconds(code) == code[1] * 10 + code[2]

\* the startTime and endTime _getCuesFromText gives the cue of a timing line
cueTimes(timecode) ==
    LET initTime == timeToSeconds(timecode.start)
    IN  [startTime |-> IF initTime = 0 THEN FirstStart ELSE initTime,
         endTime |-> timeToSeconds(timecode.end)]

\* a player with no text track fetched
TimesOff == timecodes = <<>>

InitRest ==
    /\ TracksOff /\ SanitizeOff /\ SettingsOff /\ FullscreenOff /\ MediaOff
    /\ TimesOff


\* ---------------------------------------------------------------- actions
\* the catch handler of a rejected waitPromise runs when the callback returns
Finish(s) ==
    IF s.microEnded THEN dispatchEnded([s EXCEPT !.microEnded = FALSE]) ELSE s

\* the model follows a run while its counters stay within the limits; a run
\* with the long list of tags is followed further
Limit ==
    IF AdsLength = LongTags
    THEN [pending |-> LongPending, listeners |-> LongListeners,
          index |-> LongIndex, timers |-> LongTimers]
    ELSE [pending |-> MaxPending, listeners |-> MaxListeners,
          index |-> MaxIndex, timers |-> MaxTimers]

Bounded(s) ==
    /\ s.pending <= Limit.pending
    /\ Len(s.metaListeners) <= Limit.listeners
    /\ s.currentAdsIndex <= Limit.index
    /\ s.resumeTimers <= Limit.timers
    /\ s.retryTimers <= Limit.timers

CaptionsIdle == UNCHANGED <<searchVars, parseVars, restVars>>

\* the call has changed the Ads object, the media or the SDK
Changed(s) ==
    [s EXCEPT !.did = {}, !.stepRequests = <<>>] # State

\* #adsManager has reached phase ph
Advance(ph) == [State EXCEPT !.adsManager.ph = ph]

\* CONTENT_RESUME_REQUESTED of #adsManager, after its linear ad
ContentResumeRequestedSteps ==
    IF adsManager.ph = "complete" /\ adsManager.linear
    THEN {Finish(_onContentResumeRequested(Advance("resumeReq")))}
    ELSE {}

\* the tag that is playing is the last one to play: the loop option is off
\* and the tag is the only one or the last of the list
NoTagLeft == ~cfg.loop /\ (~IsArray \/ currentAdsIndex = AdsLength - 1)

\* the callback has called media.play() or dispatched 'ended'
Resumes(r) == r.did \cap {"mediaPlay", "ended"} # {}

\* the callback has run the branch of _loadedMetadataHandler that requests
\* the next tag of the list, after the break of the current manager has
\* completed (CONTENT_RESUME_REQUESTED is being handled or has been)
RequestsNextTag(r) ==
    /\ "contentComplete" \in r.did /\ r.stepRequests # <<>>
    /\ \/ r \in ContentResumeRequestedSteps
       \/ adsManager.ph \in {"resumeReq", "done"}

\* the callback has called init() and start() of a manager
StartsAd(r) == {"managerInit", "managerStart"} \subseteq r.did

\* a callback has taken the Ads object to r
Adopt(r) ==
    /\ Bounded(r)
    /\ adsDone' = r.adsDone
    /\ adsActive' = r.adsActive /\ adsStarted' = r.adsStarted
    /\ intervalTimer' = r.intervalTimer /\ adsManager' = r.adsManager
    /\ adsLoader' = r.adsLoader
    /\ playTriggered' = r.playTriggered
    /\ currentAdsIndex' = r.currentAdsIndex
    /\ lastTimePaused' = r.lastTimePaused
    /\ activeClass' = r.activeClass /\ metaListeners' = r.metaListeners
    /\ endedListener' = r.endedListener
    /\ mPaused' = r.mPaused /\ mEnded' = r.mEnded /\ mTime' = r.mTime
    /\ seekable' = r.seekable /\ metaPending' = r.metaPending
    /\ pending' = r.pending
    /\ resumeTimers' = r.resumeTimers /\ retryTimers' = r.retryTimers
    /\ lastRequest' = r.lastRequest
    /\ nErrors' = r.nErrors
    /\ anyLoaded' = r.anyLoaded
    /\ resumeDue' = IF Resumes(r) THEN FALSE
                    ELSE resumeDue \/ (NoTagLeft /\ r \in ContentResumeRequestedSteps)
    /\ nextDue' = IF StartsAd(r) THEN FALSE
                  ELSE nextDue \/ RequestsNextTag(r)
    /\ cfg' = cfg
    /\ CaptionsIdle

\* the constructor's arguments: one tag or an array of n tags; the player
\* passes autoStart or autoStartMuted, never both
Configs ==
    {c \in [isArray : BOOLEAN, n : 1..MaxTags, autoStart : BOOLEAN,
            autoStartMuted : BOOLEAN, loop : BOOLEAN, mobile : BOOLEAN] :
        /\ c.isArray \/ c.n = 1
        /\ ~(c.autoStart /\ c.autoStartMuted)}

\* the Ads object after its constructor, the media element still loading
Constructed(configs) ==
    /\ cfg \in configs
    /\ adsDone = FALSE /\ adsActive = FALSE
    /\ adsStarted = FALSE /\ intervalTimer = FALSE /\ adsManager = NoManager
    /\ adsLoader = FALSE /\ playTriggered = FALSE
    /\ currentAdsIndex = 0 /\ lastTimePaused = 0
    /\ activeClass = FALSE /\ metaListeners = <<>> /\ endedListener = FALSE
    /\ mPaused = TRUE /\ mEnded = FALSE /\ mTime = 0
    /\ seekable = FALSE /\ metaPending = TRUE
    /\ pending = 0 /\ resumeTimers = 0 /\ retryTimers = 0
    /\ promise = FALSE
    /\ lastRequest = -1 /\ nErrors = 0
    /\ anyLoaded = FALSE /\ resumeDue = FALSE /\ nextDue = FALSE

InitAds == Constructed(Configs)

InitCaptions ==
    /\ cues = <<>> /\ time = 0 /\ found = -1
    /\ lines = <<>> /\ entries = <<>>

Init == InitAds /\ InitCaptions /\ InitRest

\* For every callback, the states it can leave the Ads object in when it
\* runs now (none when it cannot run now); a state's did and stepRequests
\* tell what the callback did on the way.

\* #promise.then(() => this.load())
ScriptLoadedSteps == IF promise THEN {} ELSE {Finish(load(State, FALSE))}

ScriptLoaded ==
    /\ promise' = TRUE
    /\ \E r \in ScriptLoadedSteps : Adopt(r)

\* the player calls play(); calls that change nothing are left out
PlaySteps == {Finish(play(State))}

Play ==
    /\ UNCHANGED promise
    /\ \E r \in PlaySteps : Changed(r) /\ Adopt(r)

\* the player calls pause() while there is a manager
PauseSteps == IF adsManager = NoManager THEN {} ELSE {Finish(pause(State))}

Pause ==
    /\ UNCHANGED promise
    /\ \E r \in PauseSteps : Changed(r) /\ Adopt(r)

\* set playRequested(value): the player assigns true when the user asks to play
SetPlayRequestedSteps ==
    {[State EXCEPT !.playTriggered = value] : value \in {TRUE}}

SetPlayRequested ==
    /\ UNCHANGED promise
    /\ \E r \in SetPlayRequestedSteps : Changed(r) /\ Adopt(r)

\* the SDK has answered one of the pending ad requests
Answered == [State EXCEPT !.pending = @ - 1]

\* ADS_MANAGER_LOADED, with the manager of a linear or a non-linear ad
AdsManagerLoadedSteps ==
    IF pending = 0 THEN {}
    ELSE {Finish(_loaded(Answered, linear)) : linear \in BOOLEAN}

AdsManagerLoaded ==
    /\ UNCHANGED promise
    /\ \E r \in AdsManagerLoadedSteps : Adopt(r)

\* AD_ERROR, with an error code in the fatal list or not
AdErrorSteps ==
    IF pending = 0 THEN {}
    ELSE {Finish(_error(Answered, fatal)) : fatal \in BOOLEAN}

AdError ==
    /\ UNCHANGED promise
    /\ \E r \in AdErrorSteps : Adopt(r)

\* #adsManager, in phase from, emits the event type of its ad and is in phase
\* to afterwards
ManagerEvent(from, to, type) ==
    IF adsManager.ph # from THEN {}
    ELSE {Finish(_assign(Advance(to), type, adsManager.linear))}

LoadedSteps == ManagerEvent("start", "loaded", "LOADED")

EvLoaded ==
    /\ UNCHANGED promise
    /\ \E r \in LoadedSteps : Adopt(r)

ContentPauseRequestedSteps ==
    IF adsManager.ph = "loaded" /\ adsManager.linear
    THEN {Finish(_onContentPauseRequested(Advance("pauseReq")))}
    ELSE {}

EvContentPauseRequested ==
    /\ UNCHANGED promise
    /\ \E r \in ContentPauseRequestedSteps : Adopt(r)

StartedSteps ==
    ManagerEvent(IF adsManager.linear THEN "pauseReq" ELSE "loaded",
                 "playing", "STARTED")

EvStarted ==
    /\ UNCHANGED promise
    /\ \E r \in StartedSteps : Adopt(r)

CompleteSteps == ManagerEvent("playing", "complete", "COMPLETE")

EvComplete ==
    /\ UNCHANGED promise
    /\ \E r \in CompleteSteps : Adopt(r)

SkippedSteps ==
    IF adsManager.linear THEN ManagerEvent("playing", "complete", "SKIPPED")
    ELSE {}

EvSkipped ==
    /\ UNCHANGED promise
    /\ \E r \in SkippedSteps : Adopt(r)

EvContentResumeRequested ==
    /\ UNCHANGED promise
    /\ \E r \in ContentResumeRequestedSteps : Adopt(r)

AllAdsCompletedSteps ==
    ManagerEvent(IF adsManager.linear THEN "resumeReq" ELSE "complete",
                 "done", "ALL_ADS_COMPLETED")

EvAllAdsCompleted ==
    /\ UNCHANGED promise
    /\ \E r \in AllAdsCompletedSteps : Adopt(r)

\* the 50 ms wait of _resumeMedia is over: media.play(), whose promise
\* resolves or rejects, and then 'ended' is dispatched
ResumeTimerSteps ==
    IF resumeTimers = 0 THEN {}
    ELSE LET s1 == [State EXCEPT !.resumeTimers = @ - 1]
         IN  {Finish(mediaPlay(s1)),
              Finish(dispatchEnded(Note(s1, "mediaPlay")))}

ResumeTimer ==
    /\ UNCHANGED promise
    /\ \E r \in ResumeTimerSteps : Adopt(r)

\* setTimeout(this._loadedMetadataHandler.bind(this), 100)
RetryTimerSteps ==
    IF retryTimers = 0 THEN {}
    ELSE {Finish(_loadedMetadataHandler([State EXCEPT !.retryTimers = @ - 1]))}

RetryTimer ==
    /\ UNCHANGED promise
    /\ \E r \in RetryTimerSteps : Adopt(r)

\* the media element has loaded its metadata
LoadedMetadataSteps ==
    IF ~metaPending THEN {}
    ELSE {Finish(dispatchLoadedMetadata([State EXCEPT !.metaPending = FALSE,
                                                      !.seekable = TRUE]))}

LoadedMetadata ==
    /\ UNCHANGED promise
    /\ \E r \in LoadedMetadataSteps : Adopt(r)

\* the content plays on; at its end the element fires 'ended'
MediaTickSteps ==
    IF mPaused \/ mEnded \/ ~seekable \/ mTime >= Duration THEN {}
    ELSE LET s1 == [State EXCEPT !.mTime = @ + 1]
         IN  {Finish(IF s1.mTime = Duration
                     THEN dispatchEnded([s1 EXCEPT !.mEnded = TRUE,
                                                   !.mPaused = TRUE])
                     ELSE s1)}

MediaTick ==
    /\ UNCHANGED promise
    /\ \E r \in MediaTickSteps : Adopt(r)

\* the states the events of the ads manager can lead to
ManagerSteps ==
    LoadedSteps \cup ContentPauseRequestedSteps \cup StartedSteps
        \cup CompleteSteps \cup SkippedSteps
        \cup ContentResumeRequestedSteps \cup AllAdsCompletedSteps

\* the states any callback can lead to
Steps ==
    ScriptLoadedSteps \cup PlaySteps \cup PauseSteps \cup SetPlayRequestedSteps
        \cup AdsManagerLoadedSteps \cup AdErrorSteps \cup ManagerSteps
        \cup ResumeTimerSteps \cup RetryTimerSteps \cup LoadedMetadataSteps
        \cup MediaTickSteps

Next ==
    \/ ScriptLoaded \/ Play \/ Pause \/ SetPlayRequested
    \/ AdsManagerLoaded \/ AdError
    \/ EvLoaded \/ EvContentPauseRequested \/ EvStarted \/ EvComplete
    \/ EvSkipped \/ EvContentResumeRequested \/ EvAllAdsCompleted
    \/ ResumeTimer \/ RetryTimer \/ LoadedMetadata \/ MediaTick

Spec == Init /\ [][Next]_vars

\* a desktop player that starts by itself, with the long list of tags or with
\* a single tag
LongConfigs ==
    {[isArray |-> a, n |-> IF a THEN LongTags ELSE 1, autoStart |-> TRUE,
      autoStartMuted |-> FALSE, loop |-> FALSE, mobile |-> FALSE] :
        a \in BOOLEAN}

InitLong == Constructed(LongConfigs) /\ InitCaptions /\ InitRest

\* the same player with the long list of tags
SpecLong == InitLong /\ [][Next]_vars

\* the page starts the content itself (its own button, the autoplay
\* attribute) while no ad is playing
ContentPlaySteps ==
    IF mPaused /\ ~adsActive THEN {Finish(mediaPlay(State))} ELSE {}

ContentPlay ==
    /\ UNCHANGED promise
    /\ \E r \in ContentPlaySteps : Adopt(r)

NextContent == Next \/ ContentPlay

\* the players without the loop option, whose content may be started by the
\* page at any time
InitContent ==
    Constructed({c \in Configs : ~c.loop}) /\ InitCaptions /\ InitRest

SpecContent == InitContent /\ [][NextContent]_vars

\* The browser runs a timer that has expired, delivers loadedmetadata of an
\* element that is loading and lets an element that is playing go on; the
\* SDK closes the break of a manager that is still there with
\* ALL_ADS_COMPLETED.
Scheduling ==
    /\ WF_vars(ResumeTimer)
    /\ WF_vars(RetryTimer)
    /\ WF_vars(LoadedMetadata)
    /\ WF_vars(MediaTick)
    /\ WF_vars(EvAllAdsCompleted)

\* the same players, run by a browser and an SDK that keep their schedule
SpecLive == SpecContent /\ Scheduling

\* the players with a list of several tags and without the loop option
ArrayConfigs == {c \in Configs : c.isArray /\ c.n > 1 /\ ~c.loop}

InitNext == Constructed(ArrayConfigs) /\ InitCaptions /\ InitRest

\* the user asks to play (the player assigns playRequested, calls play())
\* only while no next tag is awaited
PlayBefore == ~nextDue /\ Play

SetPlayRequestedBefore == ~nextDue /\ SetPlayRequested

\* the SDK answers every ad request with ADS_MANAGER_LOADED; with a list of
\* tags _loadedMetadataHandler never sets its 100 ms timer
NextAnswered ==
    \/ ScriptLoaded \/ PlayBefore \/ Pause \/ SetPlayRequestedBefore
    \/ AdsManagerLoaded
    \/ EvLoaded \/ EvContentPauseRequested \/ EvStarted \/ EvComplete
    \/ EvSkipped \/ EvContentResumeRequested \/ EvAllAdsCompleted
    \/ ResumeTimer \/ LoadedMetadata \/ MediaTick
    \/ ContentPlay

\* the browser and the SDK keep their schedule, and the SDK answers every
\* pending request
Answering ==
    /\ WF_vars(ResumeTimer)
    /\ WF_vars(LoadedMetadata)
    /\ WF_vars(MediaTick)
    /\ WF_vars(EvAllAdsCompleted)
    /\ WF_vars(AdsManagerLoaded)

\* these players, run by a browser that keeps its schedule and an SDK that
\* answers every request, the user leaving the ads alone once the next tag
\* has been requested
SpecNext ==
    InitNext /\ [][NextAnswered]_vars /\ Answering

\* ------------------------------------------------- the captions of a player
\* a player whose Ads object stays as it was constructed
PlainConfigs ==
    {c \in Configs : ~c.isArray /\ ~c.autoStart /\ ~c.autoStartMuted
                        /\ ~c.loop /\ ~c.mobile}

\* the cues of a track, each with startTime < endTime, in any order
Cues ==
    {c \in [startTime : 0..MaxTime, endTime : 0..MaxTime] :
        c.startTime < c.endTime}

CueLists == UNION {[1..n -> Cues] : n \in 0..MaxCues}

\* the texts a track's URL can deliver, split into lines (split() returns at
\* least one line)
Texts ==
    UNION {[1..n -> TimingLines \cup {"", "Hello", UrlLine}] : n \in 1..MaxLines}

\* the 'timeupdate' handler: the media is at r.time and the caption shown is
\* the cue r.found of the current track (none when -1)
TimeUpdateSteps ==
    {[time |-> t, found |-> _search(cues, t)] : t \in 0..MaxTime}

TimeUpdate ==
    /\ \E r \in TimeUpdateSteps : time' = r.time /\ found' = r.found
    /\ UNCHANGED <<cues, parseVars, adsVars, restVars>>

InitSearch ==
    /\ Constructed(PlainConfigs) /\ cues \in CueLists
    /\ time = 0 /\ found = -1 /\ lines = <<>> /\ entries = <<>>
    /\ InitRest

NextSearch == TimeUpdate

\* a track with its cues, looked up as the media time changes
SpecSearch == InitSearch /\ [][NextSearch]_vars

\* the callback of request(trackUrl, 'text', ...): the text of the track
\* has arrived
LoadTrackSteps == {_getCuesFromText(lines)}

LoadTrack ==
    /\ entries = <<>>
    /\ \E r \in LoadTrackSteps : ~r.threw /\ entries' = r.entries
    /\ UNCHANGED <<lines, searchVars, adsVars, restVars>>

InitParse ==
    /\ Constructed(PlainConfigs) /\ lines \in Texts /\ entries = <<>>
    /\ cues = <<>> /\ time = 0 /\ found = -1
    /\ InitRest

NextParse == LoadTrack

\* a track whose text is fetched and parsed
SpecParse == InitParse /\ [][NextParse]_vars

\* the languages of the tracks
Languages == {"en", "es", "fr"}

\* the track elements of a page: one per language, at most one of them
\* default
TrackLists ==
    {l \in UNION {[1..n -> [language : Languages, default : BOOLEAN,
                            native : BOOLEAN]] : n \in 0..MaxTracks} :
        /\ \A i, j \in 1..Len(l) : l[i].language = l[j].language => i = j
        /\ Cardinality({i \in 1..Len(l) : l[i].default}) <= 1}

\* a callback has taken the Captions object to r
AdoptCaptions(r) ==
    /\ trackList' = r.trackList /\ capCreated' = r.capCreated
    /\ current' = r.current /\ defaultLang' = r.defaultLang
    /\ buttonOn' = r.buttonOn /\ activeCaptions' = r.activeCaptions
    /\ captionsDiv' = r.captionsDiv /\ timeupdateOn' = r.timeupdateOn
    /\ requests' = r.requests
    /\ captionsOn' = r.captionsOn /\ rendered' = r.rendered
    /\ UNCHANGED <<adsVars, searchVars, parseVars, markup, settingsVars,
                   fsVars, mediaVars, timecodes>>

\* the player calls Captions.create()
CreateCaptionsSteps == IF capCreated THEN {} ELSE {createCaptions(Captions)}

CreateCaptions == \E r \in CreateCaptionsSteps : AdoptCaptions(r)

\* the text of a requested track arrives
TrackLoadedSteps == {trackLoaded(Captions, i) : i \in requests}

TrackLoaded == \E r \in TrackLoadedSteps : AdoptCaptions(r)

\* the user clicks the captions button
ButtonClickSteps ==
    IF capCreated /\ Len(trackList) > 0 THEN {buttonClick(Captions)} ELSE {}

ButtonClick == \E r \in ButtonClickSteps : AdoptCaptions(r)

InitTracks ==
    /\ Constructed(PlainConfigs) /\ InitCaptions
    /\ trackList \in TrackLists /\ capCreated = FALSE /\ current = 0
    /\ defaultLang = "off" /\ buttonOn = FALSE /\ activeCaptions = "off"
    /\ captionsDiv = FALSE /\ timeupdateOn = FALSE /\ requests = {}
    /\ captionsOn = FALSE
    /\ SanitizeOff /\ SettingsOff /\ FullscreenOff /\ MediaOff /\ TimesOff

NextTracks == CreateCaptions \/ TrackLoaded \/ ButtonClick

\* a player with track elements and its captions button
SpecTracks == InitTracks /\ [][NextTracks]_vars

\* the attributes an element of a cue comes with
AttrLists ==
    {<<>>, <<"onclick">>, <<"style">>, <<"onclick", "style">>,
     <<"style", "onclick">>}

\* the markups of a cue: the first element is at depth 1, an element is at
\* most one level deeper than the one before it, and nothing is inside a
\* script element
Markups ==
    {m \in UNION {[1..n -> [tag : {"b", "script"}, attributes : AttrLists,
                            depth : 1..MaxElements]] : n \in 0..MaxElements} :
        /\ Len(m) > 0 => m[1].depth = 1
        /\ \A i \in 1..(Len(m) - 1) :
              m[i + 1].depth <= m[i].depth + (IF m[i].tag = "script" THEN 0 ELSE 1)}

\* the timeupdate handler renders the current cue:
\* container.innerHTML = this._sanitize(currentCues[index].text)
RenderSteps == {_sanitize(markup)}

Render ==
    /\ \E r \in RenderSteps : ~r.threw /\ rendered' = r.els
    /\ UNCHANGED <<markup, adsVars, searchVars, parseVars, trackVars,
                   settingsVars, fsVars, mediaVars, timecodes>>

InitSanitize ==
    /\ Constructed(PlainConfigs) /\ InitCaptions /\ TracksOff /\ SettingsOff
    /\ FullscreenOff /\ MediaOff /\ TimesOff
    /\ markup \in Markups /\ rendered = <<>>

NextSanitize == Render

\* a cue whose markup is cleaned before it is shown
SpecSanitize == InitSanitize /\ [][NextSanitize]_vars

\* ----------------------------------------------------- Settings, the steps
AdoptSettings(r) ==
    /\ stCreated' = r.stCreated /\ stDestroyed' = r.stDestroyed
    /\ items' = r.items /\ menuHidden' = r.menuHidden
    /\ menuMarkup' = r.menuMarkup /\ originalOutput' = r.originalOutput
    /\ frames' = r.frames /\ slides' = r.slides
    /\ clickListeners' = r.clickListeners
    /\ elementListeners' = r.elementListeners
    /\ docListeners' = r.docListeners /\ windowListeners' = r.windowListeners
    /\ submenuHandler' = r.submenuHandler
    /\ UNCHANGED <<adsVars, searchVars, parseVars, trackVars, sanVars, fsVars,
                   mediaVars, timecodes>>

\* the events of the media element the menu is to follow
MediaEvents == {"play", "pause", "controlshidden"}
\* what a click on document can hit in the present markup
Targets ==
    {"outside", "inside"}
        \cup (IF menuMarkup = "menu" /\ items > 0 THEN {"content"} ELSE {})
        \cup (IF menuMarkup = "submenu" THEN {"back", "option"} ELSE {})

SettingsCreateSteps == IF ~stCreated THEN {createSettings(Settings)} ELSE {}
SettingsCreate == \E r \in SettingsCreateSteps : AdoptSettings(r)

AddItemSteps ==
    IF stCreated /\ ~stDestroyed /\ items < MaxItems
    THEN {addItem(Settings)} ELSE {}
AddItem == \E r \in AddItemSteps : AdoptSettings(r)

SettingsClickSteps ==
    IF clickListeners > 0 THEN {clickEvent(Settings)} ELSE {}
SettingsClick == \E r \in SettingsClickSteps : AdoptSettings(r)

MediaEventSteps(type) ==
    IF stCreated
    THEN {elementEvent(Settings, {h \in elementListeners : h[1] = type})}
    ELSE {}
MediaEvent ==
    \E type \in MediaEvents : \E r \in MediaEventSteps(type) :
        r.frames <= MaxFrames /\ AdoptSettings(r)

DocumentClickSteps(target) ==
    IF stCreated THEN {documentClick(Settings, target, docListeners)} ELSE {}
DocumentClick ==
    \E target \in Targets : \E r \in DocumentClickSteps(target) :
        r.frames <= MaxFrames /\ AdoptSettings(r)

WindowResizeSteps ==
    IF "resize" \in windowListeners THEN {hideEvent(Settings)} ELSE {}
WindowResize ==
    \E r \in WindowResizeSteps : r.frames <= MaxFrames /\ AdoptSettings(r)

AnimationFrameSteps == IF frames > 0 THEN {hideFrame(Settings)} ELSE {}
AnimationFrame == \E r \in AnimationFrameSteps : AdoptSettings(r)

SlideTimeoutSteps == {slideTimeout(Settings, kind) : kind \in slides}
SlideTimeout == \E r \in SlideTimeoutSteps : AdoptSettings(r)

SettingsDestroySteps ==
    IF stCreated /\ ~stDestroyed THEN {destroySettings(Settings)} ELSE {}
SettingsDestroy == \E r \in SettingsDestroySteps : AdoptSettings(r)

InitSettings ==
    /\ Constructed(PlainConfigs) /\ InitCaptions /\ TracksOff /\ SanitizeOff
    /\ SettingsOff /\ FullscreenOff /\ MediaOff /\ TimesOff

NextSettings ==
    \/ SettingsCreate
    \/ AddItem
    \/ SettingsClick
    \/ MediaEvent
    \/ DocumentClick
    \/ WindowResize
    \/ AnimationFrame
    \/ SlideTimeout
    \/ SettingsDestroy

SpecSettings == InitSettings /\ [][NextSettings]_vars

\* --------------------------------------------------- Fullscreen, the steps
AdoptFullscreen(r) ==
    /\ api' = r.api /\ bodyClass' = r.bodyClass /\ fsCreated' = r.fsCreated
    /\ fsDestroyed' = r.fsDestroyed /\ isFullscreen' = r.isFullscreen
    /\ dataFullscreen' = r.dataFullscreen /\ buttonOut' = r.buttonOut
    /\ ariaPressed' = r.ariaPressed
    /\ fullscreenWidth' = r.fullscreenWidth
    /\ fullscreenHeight' = r.fullscreenHeight
    /\ inlineWidth' = r.inlineWidth /\ inlineHeight' = r.inlineHeight
    /\ fsListeners' = r.fsListeners /\ docFullscreen' = r.docFullscreen
    /\ changeDue' = r.changeDue /\ videoFullscreen' = r.videoFullscreen
    /\ videoDue' = r.videoDue /\ isAd' = r.isAd /\ hasManager' = r.hasManager
    /\ resizeCall' = r.resizeCall /\ resizeFrames' = r.resizeFrames
    /\ adSize' = r.adSize
    /\ UNCHANGED <<adsVars, searchVars, parseVars, trackVars, sanVars,
                   settingsVars, mediaVars, timecodes>>

\* a step starts with no resizeAds call made
Fresh == [Fullscreen EXCEPT !.resizeCall = <<>>]
BoundedFs(r) ==
    r.changeDue <= MaxChanges /\ Len(r.resizeFrames) <= MaxResizes

FullscreenCreateSteps ==
    IF ~fsCreated THEN {createFullscreen(Fresh)} ELSE {}
FullscreenCreate == \E r \in FullscreenCreateSteps : AdoptFullscreen(r)

FullscreenClickSteps ==
    IF "click" \in fsListeners
    THEN {fullscreenClick(Fresh, granted) : granted \in BOOLEAN} ELSE {}
FullscreenClick ==
    \E r \in FullscreenClickSteps : BoundedFs(r) /\ AdoptFullscreen(r)

KeydownSteps ==
    IF "keydown" \in fsListeners
    THEN {_keydownEvent(Fresh, granted) : granted \in BOOLEAN} ELSE {}
Keydown == \E r \in KeydownSteps : BoundedFs(r) /\ AdoptFullscreen(r)

\* the browser delivers a fullscreenchange event, under the name it uses
FullscreenChangeSteps ==
    IF changeDue > 0
    THEN {IF event \in fsListeners
          THEN _fullscreenChange([Fresh EXCEPT !.changeDue = @ - 1])
          ELSE [Fresh EXCEPT !.changeDue = @ - 1] : event \in fullscreenEvents}
    ELSE {}
FullscreenChange ==
    \E r \in FullscreenChangeSteps : BoundedFs(r) /\ AdoptFullscreen(r)

\* the user leaves fullscreen with the browser's own means
EscapeSteps ==
    IF docFullscreen
    THEN {[Fresh EXCEPT !.docFullscreen = FALSE, !.changeDue = @ + 1]}
    ELSE {}
Escape == \E r \in EscapeSteps : BoundedFs(r) /\ AdoptFullscreen(r)

BeginFullscreenSteps ==
    IF videoDue
    THEN {IF "webkitbeginfullscreen" \in fsListeners
          THEN beginFullscreen([Fresh EXCEPT !.videoDue = FALSE])
          ELSE [Fresh EXCEPT !.videoDue = FALSE]}
    ELSE {}
BeginFullscreen == \E r \in BeginFullscreenSteps : AdoptFullscreen(r)

\* the user closes the video's native fullscreen
EndFullscreenSteps ==
    IF videoFullscreen /\ ~videoDue
    THEN {IF "webkitendfullscreen" \in fsListeners
          THEN endFullscreen([Fresh EXCEPT !.videoFullscreen = FALSE])
          ELSE [Fresh EXCEPT !.videoFullscreen = FALSE]}
    ELSE {}
EndFullscreen == \E r \in EndFullscreenSteps : AdoptFullscreen(r)

\* an ad starts or ends
AdChangeSteps ==
    IF fsCreated
    THEN {[Fresh EXCEPT !.isAd = a, !.hasManager = m] :
             a \in BOOLEAN \ {isAd}, m \in BOOLEAN}
    ELSE {}
AdChange == \E r \in AdChangeSteps : AdoptFullscreen(r)

ResizeFrameSteps ==
    IF resizeFrames # <<>> THEN {resizeFrame(Fullscreen)} ELSE {}
ResizeFrame == \E r \in ResizeFrameSteps : AdoptFullscreen(r)

FullscreenDestroySteps ==
    IF fsCreated /\ ~fsDestroyed THEN {destroyFullscreen(Fresh)} ELSE {}
FullscreenDestroy == \E r \in FullscreenDestroySteps : AdoptFullscreen(r)

\* new Fullscreen(player, position), on any browser and page
InitFullscreen ==
    /\ Constructed(PlainConfigs) /\ InitCaptions /\ TracksOff /\ SanitizeOff
    /\ SettingsOff /\ MediaOff /\ TimesOff
    /\ api \in {"native", "iphone", "none"} /\ bodyClass \in BOOLEAN
    /\ isFullscreen = bodyClass
    /\ fsCreated = FALSE /\ fsDestroyed = FALSE /\ dataFullscreen = FALSE
    /\ buttonOut = FALSE /\ ariaPressed = FALSE
    /\ fullscreenWidth = 0 /\ fullscreenHeight = 0
    /\ inlineWidth = FALSE /\ inlineHeight = FALSE /\ fsListeners = {}
    /\ docFullscreen = FALSE /\ changeDue = 0 /\ videoFullscreen = FALSE
    /\ videoDue = FALSE /\ isAd = FALSE /\ hasManager = FALSE
    /\ resizeCall = <<>> /\ resizeFrames = <<>> /\ adSize = <<>>

NextFullscreen ==
    \/ FullscreenCreate
    \/ FullscreenClick
    \/ Keydown
    \/ FullscreenChange
    \/ Escape
    \/ BeginFullscreen
    \/ EndFullscreen
    \/ AdChange
    \/ ResizeFrame
    \/ FullscreenDestroy

SpecFullscreen == InitFullscreen /\ [][NextFullscreen]_vars

\* -------------------------------------------------------- Media, the steps
\* a file: its type, whether the library of its wrapper and the element
\* play that type, and whether the wrapper's constructor throws
MediaFiles ==
    {f \in [type : {"mp4", "hls", "dash", "flv"}, plays : BOOLEAN,
            native : BOOLEAN, fails : BOOLEAN] :
        f.type = "mp4" => (f.plays = f.native /\ ~f.fails)}
FileLists == UNION {[1..n -> MediaFiles] : n \in 0..MaxFiles}

MediaLoadSteps == {load_media(Media)}
MediaLoad ==
    \E r \in MediaLoadSteps :
        /\ files' = r.files /\ nativeHls' = r.nativeHls /\ media' = r.media
        /\ currentSrc' = r.currentSrc /\ invoked' = r.invoked
        /\ loadThrew' = r.loadThrew
        /\ UNCHANGED <<adsVars, searchVars, parseVars, trackVars, sanVars,
                       settingsVars, fsVars, timecodes>>

\* new Media(element, options) with any files
InitMedia ==
    /\ Constructed(PlainConfigs) /\ InitCaptions /\ TracksOff /\ SanitizeOff
    /\ SettingsOff /\ FullscreenOff /\ TimesOff
    /\ files \in FileLists /\ nativeHls \in BOOLEAN
    /\ media = NoMedia /\ invoked = <<>> /\ loadThrew = FALSE
    /\ currentSrc = IF files = <<>> THEN 0 ELSE 1

NextMedia == MediaLoad

SpecMedia == InitMedia /\ [][NextMedia]_vars

\* ------------------------------------------- Captions, the times of cues
Timecodes ==
    [start : (0..MaxSeconds) \X Tenths, end : (0..MaxSeconds) \X Tenths]
TimecodeLists == UNION {[1..n -> Timecodes] : n \in 1..MaxTimings}

\* the callback of request(): this.tracks[language] are the cues of the text
ParseTimesSteps == {[k \in 1..Len(timecodes) |-> cueTimes(timecodes[k])]}
ParseTimes ==
    /\ cues = <<>>
    /\ \E r \in ParseTimesSteps : cues' = r
    /\ UNCHANGED <<time, found, parseVars, adsVars, restVars>>

\* a 'timeupdate' whose handler returns
TimeUpdateReturns ==
    /\ cues # <<>>
    /\ \E r \in TimeUpdateSteps :
          r.found # -2 /\ time' = r.time /\ found' = r.found
    /\ UNCHANGED <<cues, parseVars, adsVars, restVars>>

InitTimes ==
    /\ Constructed(PlainConfigs) /\ InitCaptions
    /\ TracksOff /\ SanitizeOff /\ SettingsOff /\ FullscreenOff /\ MediaOff
    /\ timecodes \in TimecodeLists

NextTimes == ParseTimes \/ TimeUpdateReturns

\* a track whose text is parsed into cues that are looked up afterwards
SpecTimes == InitTimes /\ [][NextTimes]_vars

\* --------------------------------------------- Captions, the cue on show
\* the 'timeupdate' listener of _show runs, at any time of the media, in
\* content or in an ad; every track has the cues `cues`, each with the text
\* `markup`
CaptionsUpdateSteps ==
    IF ~timeupdateOn THEN {}
    ELSE {[isMedia |-> m, time |-> t,
           to |-> timeupdate(Captions, m, cues, t, markup)] :
             m \in BOOLEAN, t \in 0..MaxTime}
CaptionsUpdate ==
    \E r \in CaptionsUpdateSteps : time' = r.time /\ AdoptCaptions(r.to)
                                   /\ UNCHANGED <<cues, found>>

\* the user picks a language, or 'off', in the settings menu
LanguageClickSteps ==
    IF capCreated /\ Len(trackList) > 1
    THEN {languageClick(Captions, l) :
             l \in {trackList[i].language : i \in 1..Len(trackList)} \cup {"off"}}
    ELSE {}
LanguageClick == \E r \in LanguageClickSteps : AdoptCaptions(r)

\* a page with track elements, all with one cue of the same text
InitShow ==
    /\ Constructed(PlainConfigs) /\ lines = <<>> /\ entries = <<>>
    /\ cues \in {l \in CueLists : Len(l) = 1} /\ time = 0 /\ found = -1
    /\ trackList \in TrackLists /\ capCreated = FALSE /\ current = 0
    /\ defaultLang = "off" /\ buttonOn = FALSE /\ activeCaptions = "off"
    /\ captionsDiv = FALSE /\ timeupdateOn = FALSE /\ requests = {}
    /\ captionsOn = FALSE
    /\ markup \in {m \in Markups : Len(m) <= 1} /\ rendered = <<>>
    /\ SettingsOff /\ FullscreenOff /\ MediaOff /\ TimesOff

NextShow ==
    \/ CreateCaptions
    \/ TrackLoaded
    \/ ButtonClick
    \/ CaptionsUpdate
    \/ LanguageClick

SpecShow == InitShow /\ [][NextShow]_vars

TypeOK ==
    /\ currentAdsIndex \in 0..Limit.index
    /\ pending \in 0..Limit.pending
    /\ lastRequest \in -1..Limit.index

\* ------------------------------------------------------------------ claims
\* the ad source has a tag to fall back to
HasNextTag == IsArray /\ AdsLength > 1 /\ currentAdsIndex < AdsLength - 1

\* what resumes the content
Resuming == {"resumeMedia", "prepareMedia", "mediaPlay", "ended"}

\* C1: an AD_ERROR handled while the ad source is an array of more than one
\* tag and currentAdsIndex < length - 1 increases currentAdsIndex by exactly
\* one, destroys and reloads (load(true)) and requests the tag at the new
\* index, and does not resume the content in that step.
C1_ErrorFallback ==
    HasNextTag =>
        \A r \in AdErrorSteps :
            /\ r.currentAdsIndex = currentAdsIndex + 1
            /\ {"destroy", "load"} \subseteq r.did
            /\ r.adsLoader
            /\ r.stepRequests = <<r.currentAdsIndex>>
            /\ r.did \cap Resuming = {}
            /\ r.resumeTimers = resumeTimers

C1_Witness ==
    /\ HasNextTag /\ currentAdsIndex = 0
    /\ \E r \in AdErrorSteps :
          /\ Bounded(r) /\ r.currentAdsIndex = 1
          /\ r.stepRequests = <<1>> /\ "load" \in r.did

\* C2: with an array of n tags whose requests are all answered by AD_ERROR
\* (no ADS_MANAGER_LOADED so far), there are at most n AD_ERROR events, the
\* k-th of them (k < n) requests tag k and nothing else, so each tag is
\* requested by the error path at most once, and the n-th runs _resumeMedia
\* and requests nothing; from then on no request is outstanding and no
\* callback issues one.
C2_RetryTerminates ==
    (IsArray /\ ~anyLoaded) =>
        /\ nErrors <= AdsLength
        /\ \A r \in AdErrorSteps :
              /\ r.stepRequests =
                    IF r.nErrors < AdsLength THEN <<r.nErrors>> ELSE <<>>
              /\ r.nErrors = AdsLength => "resumeMedia" \in r.did
        /\ nErrors = AdsLength =>
              (pending = 0 /\ \A r \in Steps : r.stepRequests = <<>>)

C2_Witness ==
    /\ IsArray /\ AdsLength > 1 /\ ~anyLoaded
    /\ nErrors = AdsLength /\ lastRequest = AdsLength - 1
    /\ pending = 0 /\ resumeTimers > 0

\* C3: an AD_ERROR handled with no tag to fall back to dispatches
\* 'playererror', requests nothing, destroys the ads manager when the error
\* is fatal, and, if autoStart, autoStartMuted or adsStarted holds, marks the
\* ad inactive and resumes the content: 'ended' is dispatched when the
\* content had ended, otherwise the 50 ms wait is started; and the callback
\* that ends such a wait invokes media.play().
C3_ErrorNoTagLeft ==
    /\ ~HasNextTag =>
          \A r \in AdErrorSteps :
              /\ "playererror" \in r.did
              /\ r.stepRequests = <<>>
              /\ ("fatal" \in r.did /\ adsManager.ph # "none") =>
                      r.adsManager.ph = "destroyed"
              /\ (cfg.autoStart \/ cfg.autoStartMuted \/ adsStarted) =>
                      /\ ~r.adsActive
                      /\ "resumeMedia" \in r.did
                      /\ IF mEnded
                         THEN "ended" \in r.did /\ r.resumeTimers = resumeTimers
                         ELSE r.resumeTimers = resumeTimers + 1
    /\ \A r \in ResumeTimerSteps : "mediaPlay" \in r.did

C3_Witness ==
    /\ ~HasNextTag /\ adsManager.ph \notin {"none", "destroyed"} /\ mEnded
    /\ adsActive
    /\ \E r \in AdErrorSteps :
          /\ Bounded(r) /\ {"fatal", "resumeMedia", "ended"} \subseteq r.did
          /\ r.adsManager.ph = "destroyed" /\ ~r.adsActive

\* the requests of a callback continue the sequence that ended with last:
\* each index is the one before it or the next one (the first one is 0)
InOrder(last, reqs) ==
    LET seq == <<last>> \o reqs
    IN  \A i \in 2..Len(seq) : seq[i] - seq[i - 1] \in {0, 1}

\* C4: with an array of tags and loop disabled, the indices of successive ad
\* requests start at 0, never decrease and grow by at most one from one
\* request to the next.  (Every _loadedMetadataHandler listener still attached
\* raises currentAdsIndex, requesting or not, and _start requests again at
\* whatever index it finds when #adsDone is false.)
C4_SequencingOrder ==
    (IsArray /\ ~cfg.loop) =>
        \A r \in Steps : Bounded(r) => InOrder(lastRequest, r.stepRequests)

\* C5: a callback in which _prepareMedia runs leaves the content's
\* currentTime at lastTimePaused and does not invoke media.play() (that is
\* left to the 50 ms wait, or replaced by 'ended'); lastTimePaused is written
\* by CONTENT_PAUSE_REQUESTED only, which records the content's position.
C5_PositionRestored ==
    /\ \A r \in Steps \cup ContentPlaySteps :
          /\ "prepareMedia" \in r.did =>
                /\ r.mTime = r.lastTimePaused
                /\ "mediaPlay" \notin r.did
                /\ r.resumeTimers > resumeTimers \/ "ended" \in r.did
          /\ r \notin ContentPauseRequestedSteps =>
                r.lastTimePaused = lastTimePaused
    /\ \A r \in ContentPauseRequestedSteps : r.lastTimePaused = mTime

C5_Witness ==
    /\ lastTimePaused > 0 /\ mTime # lastTimePaused
    /\ \E r \in ContentResumeRequestedSteps :
          /\ Bounded(r) /\ "prepareMedia" \in r.did
          /\ r.mTime = lastTimePaused /\ r.resumeTimers > resumeTimers

\* C7: right after STARTED of a linear ad the content is paused, the ad is
\* active (paused getter false) and op-ads--active is set; right after
\* COMPLETE or SKIPPED of a linear ad the ad is inactive and the class is
\* removed.
C7_AdBreakTakesOver ==
    adsManager.linear =>
        /\ \A r \in StartedSteps : r.mPaused /\ r.adsActive /\ r.activeClass
        /\ \A r \in CompleteSteps \cup SkippedSteps :
              ~r.adsActive /\ ~r.activeClass

C7_Witness ==
    /\ adsManager.linear /\ ~mPaused /\ ~activeClass
    /\ \E r \in StartedSteps :
          /\ Bounded(r) /\ "mediaPause" \in r.did
          /\ r.mPaused /\ r.adsActive /\ r.activeClass

\* C8: with loop enabled and an array of n tags, CONTENT_RESUME_REQUESTED
\* sets currentAdsIndex to (currentAdsIndex + 1) mod n, destroys and reloads
\* the ads, requests the tag at the new index and does not resume the
\* content; currentAdsIndex is always within 0..n-1.
C8_LoopMode ==
    (cfg.loop /\ IsArray) =>
        /\ currentAdsIndex \in 0..(AdsLength - 1)
        /\ \A r \in ContentResumeRequestedSteps :
              /\ r.currentAdsIndex = (currentAdsIndex + 1) % AdsLength
              /\ {"destroy", "load"} \subseteq r.did
              /\ r.stepRequests = <<r.currentAdsIndex>>
              /\ r.did \cap Resuming = {}
              /\ r.resumeTimers = resumeTimers

C8_Witness ==
    /\ cfg.loop /\ IsArray /\ AdsLength > 1 /\ currentAdsIndex = AdsLength - 1
    /\ \E r \in ContentResumeRequestedSteps :
          /\ Bounded(r) /\ r.currentAdsIndex = 0 /\ r.stepRequests = <<0>>
          /\ "load" \in r.did


\* C6: with the loop option off, once CONTENT_RESUME_REQUESTED has been
\* handled for the last tag of the list (or for the single tag), a later
\* callback calls media.play() or dispatches 'ended', in every run in which
\* the browser and the SDK keep their schedule.
C6_ContentResumes == resumeDue ~> ~resumeDue

Sorted(tracks) ==
    \A i \in 1..(Len(tracks) - 1) :
        tracks[i].startTime <= tracks[i + 1].startTime

NoOverlap(tracks) ==
    \A i \in 1..(Len(tracks) - 1) :
        tracks[i].endTime <= tracks[i + 1].startTime

Covers(cue, t) == cue.startTime <= t /\ t < cue.endTime

\* C9: for a cue list sorted by startTime whose cues do not overlap (each
\* with startTime < endTime) and every currentTime, _search returns the index
\* of a cue that covers currentTime when there is one, and -1 when there is
\* none.
C9_BinarySearch ==
    (Sorted(cues) /\ NoOverlap(cues)) =>
        \A r \in TimeUpdateSteps :
            IF \E i \in 1..Len(cues) : Covers(cues[i], r.time)
            THEN /\ r.found \in 0..(Len(cues) - 1)
                 /\ Covers(cues[r.found + 1], r.time)
            ELSE r.found = -1

\* the last of MaxCues cues is shown, and a time in a gap between the first
\* and the last cue finds none
C9_Witness ==
    /\ Sorted(cues) /\ NoOverlap(cues) /\ Len(cues) = MaxCues
    /\ found = MaxCues - 1 /\ Covers(cues[MaxCues], time)
    /\ \E r \in TimeUpdateSteps :
          /\ r.found = -1
          /\ cues[1].endTime <= r.time /\ r.time < cues[MaxCues].startTime

\* what the parser has to return for the timing line k of ls
TextAfter(ls, k) ==
    LET stop == {j \in (k + 1)..Len(ls) : ls[j] = ""}
        last == IF stop = {} THEN Len(ls)
                ELSE (CHOOSE j \in stop : \A m \in stop : j <= m) - 1
    IN  SubSeq(ls, k + 1, last)

CueOf(ls, k) ==
    [timecode |-> ls[k],
     identifier |-> IF k > 1 /\ ls[k - 1] # "" THEN ls[k - 1] ELSE "",
     text |-> TextAfter(ls, k)]

TimingAt(ls) ==
    SelectSeq([k \in 1..Len(ls) |-> k], LAMBDA k : ls[k] \in TimingLines)

\* C10: for every text, _getCuesFromText returns one cue per timing line, in
\* the order of the text; the text of a cue is the lines after its timing
\* line up to the next empty line or the end, and its identifier the
\* non-empty line right before the timing line, or empty.
C10_LineParser ==
    \A r \in LoadTrackSteps :
        /\ ~r.threw
        /\ Len(r.entries) = Len(TimingAt(lines))
        /\ \A n \in 1..Len(r.entries) :
              r.entries[n] = CueOf(lines, TimingAt(lines)[n])

\* what showing the default track i comes to
DefaultShown(r, i) ==
    /\ r.current = i /\ r.buttonOn
    /\ r.activeCaptions = trackList[i].language
    /\ r.timeupdateOn

\* C11: once create() has processed a default track, with its cues there
\* natively or through the callback of the request, current is that track,
\* the button is on with data-active-captions its language, and the
\* timeupdate handler is attached.
C11_DefaultTrackShown ==
    /\ \A r \in CreateCaptionsSteps :
          \A i \in 1..Len(trackList) :
              (trackList[i].default /\ trackList[i].native) => DefaultShown(r, i)
    /\ \A i \in requests :
          trackList[i].default => DefaultShown(trackLoaded(Captions, i), i)

\* C12: for every markup _sanitize completes without error, and its result
\* has no script element, no element with an attribute whose name starts
\* with 'on' or 'javascript:', and no style attribute.
C12_Sanitize ==
    \A r \in RenderSteps :
        /\ ~r.threw
        /\ \A k \in 1..Len(r.els) :
              /\ r.els[k].tag # "script"
              /\ \A j \in 1..Len(r.els[k].attributes) :
                    /\ ~isHandler(r.els[k].attributes[j])
                    /\ r.els[k].attributes[j] # "style"

\* C13: once Settings.create() has run, every play, pause and controlshidden
\* event of the media element has the menu hidden and put back to its main
\* markup: the event schedules the reset, and the reset leaves the menu with
\* aria-hidden 'true' and the main menu as its markup, with or without items.
C13_HideOnPlayback ==
    (stCreated /\ ~stDestroyed) =>
        /\ \A type \in MediaEvents :
               \A r \in MediaEventSteps(type) : r.frames > frames
        /\ \A r \in AnimationFrameSteps :
               r.menuHidden /\ r.menuMarkup = "menu"

\* C14: once Settings.destroy() has run, no listener of create() or of any
\* addItem() call is attached any more: none on the button, the media
\* element, document or window.
C14_DestroyDetaches ==
    stDestroyed =>
        /\ clickListeners = 0
        /\ elementListeners = {}
        /\ docListeners = {}
        /\ windowListeners = {}

\* C15: once Fullscreen.destroy() has run, none of the listeners of create()
\* is attached, and a later fullscreenchange event or F key press leaves
\* isFullscreen, data-fullscreen and the body class as they are.
C15_FullscreenDetached ==
    fsDestroyed =>
        /\ fsListeners = {}
        /\ \A r \in FullscreenChangeSteps \cup KeydownSteps :
               /\ r.isFullscreen = isFullscreen
               /\ r.dataFullscreen = dataFullscreen
               /\ r.bodyClass = bodyClass

\* the state C17 lists: not fullscreen, no indicator, no inline size
Listed(f) ==
    /\ ~f.isFullscreen /\ ~f.dataFullscreen /\ ~f.buttonOut /\ ~f.bodyClass
    /\ ~f.inlineWidth /\ ~f.inlineHeight
\* the browser is not in fullscreen and owes no notification
InSync(f) ==
    ~f.docFullscreen /\ f.changeDue = 0 /\ ~f.videoFullscreen /\ ~f.videoDue
\* the notification a toggle is followed by, if it caused one
notified(f) ==
    IF f.changeDue > 0 THEN _fullscreenChange([f EXCEPT !.changeDue = @ - 1])
    ELSE IF f.videoDue THEN beginFullscreen([f EXCEPT !.videoDue = FALSE])
    ELSE f
toggleTwice(f) ==
    notified(toggleFullscreen(notified(toggleFullscreen(f, TRUE)), TRUE))

\* C17: from a player that is not in fullscreen, two toggleFullscreen() calls
\* in a row, each followed by its notification, enter fullscreen and end in
\* the state they started from: isFullscreen false, data-fullscreen 'false', no --out class
\* on the button, no op-fullscreen__on on body, no inline width or height.
C17_ToggleRoundTrip ==
    (fsCreated /\ Listed(Fullscreen) /\ InSync(Fullscreen)) =>
        /\ Listed(toggleTwice(Fullscreen))
        /\ LET once == notified(toggleFullscreen(Fullscreen, TRUE))
           IN  once.isFullscreen /\ once.dataFullscreen /\ once.bodyClass
C17_Witness ==
    /\ fsCreated /\ Listed(Fullscreen) /\ InSync(Fullscreen)
    /\ fullscreenWidth = ScreenWidth
    /\ Listed(toggleTwice(Fullscreen))

\* C18: after Fullscreen.create(), data-fullscreen is 'true' and the button
\* has class op-controls__fullscreen--out exactly when isFullscreen is true.
C18_IndicatorConsistent ==
    fsCreated =>
        /\ dataFullscreen = isFullscreen
        /\ buttonOut = isFullscreen

\* the steps that can change isFullscreen
StateSteps ==
    FullscreenClickSteps \cup KeydownSteps \cup FullscreenChangeSteps
        \cup BeginFullscreenSteps \cup EndFullscreenSteps

\* C19: a step that changes the fullscreen state while an ad plays calls
\* resizeAds, with the stored screen size on entering and (0, 0) on leaving;
\* a step made while no ad plays does not call it.
C19_AdsResized ==
    \A r \in StateSteps :
        /\ (isAd /\ r.isFullscreen # isFullscreen) =>
               r.resizeCall = IF r.isFullscreen
                              THEN <<ScreenWidth, ScreenHeight>> ELSE <<0, 0>>
        /\ ~isAd => r.resizeCall = <<>>

\* C16: a callback in which _prepareMedia runs leaves no loadedmetadata
\* listener of _onContentResumeRequested on the media element, so that a
\* later loadedmetadata event does not run _loadedMetadataHandler again.
C16_ResumeListenerOnce ==
    \A r \in Steps :
        "prepareMedia" \in r.did =>
            \A k \in 1..Len(r.metaListeners) : r.metaListeners[k] # "meta"

\* the files load() would find playable, by the wrapper it makes for each
Playable(m) ==
    {i \in 1..Len(m.files) : canPlayType(tryFile(m, i), tryFile(m, i).media)}

\* C20: Media.load() on a list of files that is not empty leaves as active
\* wrapper one made for the first file of the list whose wrapper reports its
\* type as playable; no later file is tried, and Media.current is the file
\* of the active wrapper.
C20_FirstPlayable ==
    \A r \in MediaLoadSteps :
        files # <<>> =>
            /\ r.media.file \in Playable(Media)
            /\ \A i \in Playable(Media) : r.media.file <= i
            /\ \A k \in 1..Len(r.invoked) : r.invoked[k] <= r.media.file
            /\ r.currentSrc = r.media.file

\* C21: Media.load() throws when the list of files is empty, and throws as
\* well, without leaving a wrapper of a file that cannot be played in
\* charge, when no file of the list is reported playable.
C21_LoadFails ==
    \A r \in MediaLoadSteps :
        /\ files = <<>> => r.loadThrew
        /\ (files # <<>> /\ Playable(Media) = {}) => r.loadThrew

\* C22: _search returns, for every list of cues and every currentTime, a
\* cue that starts at currentTime and does not end after it included.
C22_SearchReturns ==
    \A r \in TimeUpdateSteps : r.found # -2

\* C23: the cue of a timing line whose start is before its end has
\* startTime < endTime, a cue that starts at 0 included.
C23_CueInterval ==
    \A r \in ParseTimesSteps :
        \A k \in 1..Len(r) :
            timeToSeconds(timecodes[k].start) < timeToSeconds(timecodes[k].end)
                => r[k].startTime < r[k].endTime

\* C24: after a timeupdate handled by Captions the container has class
\* op-captions--on, and the sanitised text of the cue found, exactly when
\* the player is in its content, a track is current, the cues of its
\* language are stored, _search finds a cue at the media's time and the
\* button has class op-controls__captions--on; it is hidden otherwise.
C24_CaptionOnShow ==
    \A r \in CaptionsUpdateSteps :
        LET due == /\ r.isMedia /\ current # 0
                   /\ tracksStored(Captions, current)
                   /\ _search(cues, r.time) > -1 /\ buttonOn
        IN  /\ r.to.captionsOn <=> due
            /\ due => (~_sanitize(markup).threw
                       /\ r.to.rendered = _sanitize(markup).els)

\* C25: with a list of n tags and the loop option off, once the break of
\* tag i (i < n - 1) has completed and _loadedMetadataHandler has requested
\* the next tag, a later callback calls init() and start() of a manager, for
\* autoStart true and for autoStart false, in every run in which the SDK
\* answers every request with ADS_MANAGER_LOADED and Ads.play() is not
\* called again.
C25_NextAdStarts == nextDue ~> ~nextDue

=============================================================================
